---- MODULE Spec2Model ----
(***************************************************************************)
(* Real-time feature-capture pipeline of music-advisor's JUCE plugins.     *)
(*                                                                         *)
(* Two pipeline variants live in the repository and both are modelled:     *)
(*   "probe": plugins/juce_probe  - FeatureCollector with an AbstractFifo  *)
(*            and a dedicated worker thread (drain, aggregate, snapshot).  *)
(*   "demo":  plugins/juce_ui_demo - FeatureCollector made of atomics and  *)
(*            a SidecarWriter job on a ThreadPool of one thread.           *)
(* Init picks the variant; every action belongs to exactly one variant.    *)
(*                                                                         *)
(* Units.  Times are exact integers in ticks, TicksPerSec ticks a second,  *)
(* and sample rates divide TicksPerSec, so that every division the code    *)
(* makes on doubles is exact here.  Amplitudes are small integers.         *)
(***************************************************************************)
EXTENDS Integers, Sequences, FiniteSets, TLC

\* ------------------------------------------------------------------ bounds
\* Size of fifoBuffer.  The source sets 8192 (FeatureCollector.h:79); the
\* model scales it down so that the queue fills within a few pushes.
fifoCapacity == 2
\* processBlock calls in one behaviour.
MaxPush == 3
\* requestSnapshot / requestSidecar calls in one behaviour.
MaxRequests == 3
\* prepareToPlay / releaseResources calls in one behaviour.
MaxResets == 2
\* Wall-clock seconds that can pass (timestamps of snapshot folders).
MaxClock == 1

\* ------------------------------------------------------------- constants
\* Aggregator::sampleRate{48000.0}
kDefaultSampleRate == 48000
\* one tick is one sample period at the default sample rate
TicksPerSec == kDefaultSampleRate
\* kTimelineSpacingSec = 0.25 (seconds)
kTimelineSpacingSec == TicksPerSec \div 4
\* Aggregator::lastTimelineWrite{-1.0} (seconds)
kNoTimelineWrite == 0 - TicksPerSec
\* the floor of juce::Decibels::gainToDecibels, -100 dB
kMinusInfinityDb == 0 - 100
\* sample rates (Hz) the host prepares the plugin with
SampleRates == {4}

Min(a, b) == IF a <= b THEN a ELSE b
Max(a, b) == IF a >= b THEN a ELSE b
Abs(a) == IF a < 0 THEN -a ELSE a

\* Audio blocks the host delivers: a sequence of channels, each a sequence
\* of samples.  One mono block of one sample, one stereo block of two.
Blocks == { << <<1>> >>, << <<1, 2>>, <<0, 1>> >> }

getNumChannels(buffer) == Len(buffer)
getNumSamples(buffer) == IF Len(buffer) = 0 THEN 0 ELSE Len(buffer[1])

NoFrame == [timestampSec |-> 0, sumSquares |-> 0, sampleCount |-> 0, peakLinear |-> 0]
\* What a read outside fifoBuffer may return besides what was stored there.
GarbageFrame == [timestampSec |-> 0, sumSquares |-> 9, sampleCount |-> 9, peakLinear |-> 9]

\* Track ids are juce::Strings that sanitiseId takes apart: sequences of
\* characters.  Folder roots are path strings taken whole.
kUntitled == << "u", "n", "t", "i", "t", "l", "e", "d" >>
NoRequest == [id |-> 0, trackId |-> kUntitled, dataRootOverride |-> ""]
TrackIds == { << "t", "r", "k" >> }

\* std::getenv("MA_DATA_ROOT"): a null pointer, or the variable's text
EnvUnset == [set |-> FALSE, value |-> ""]

\* What the host and the user do in one behaviour: streaming audio with
\* stream restarts, or requesting snapshots of a short stream.
StreamRun == [pushes |-> MaxPush, requests |-> 0, resets |-> MaxResets, env |-> EnvUnset]
SnapshotRun == [pushes |-> 1, requests |-> MaxRequests, resets |-> 1, env |-> EnvUnset]
Runs == {StreamRun, SnapshotRun}

VARIABLES
    budget,             \* the run: how many calls the host and the user make,
                        \* and the process environment
    variant,            \* "probe" or "demo"
    \* ---- probe: FeatureCollector (FIFO + thread)
    bufferSize,         \* AbstractFifo::bufferSize, as fifo(fifoCapacity) left it
    validStart,         \* AbstractFifo read cursor
    validEnd,           \* AbstractFifo write cursor
    fifoBuffer,         \* std::vector<ProbeFrame>, indices 0..fifoCapacity-1
    wild,               \* the memory just past fifoBuffer's storage
    aggregator,         \* FeatureCollector::Aggregator
    snapshotRequested,  \* std::atomic<bool>
    writingSnapshot,    \* std::atomic<bool>
    pendingSnapshot,    \* SnapshotRequest
    requestMutex,       \* owner of the std::mutex: "none", "ui", "worker", "audio"
    lastWritePath,      \* juce::String
    threadShouldExit,   \* juce::Thread's exit flag
    \* ---- probe: MusicAdvisorProbeAudioProcessor
    samplesProcessed,
    currentSampleRate,  \* AudioProcessor::getSampleRate()
    captureEnabled,     \* the capture_enabled parameter
    \* ---- demo: FeatureCollector (atomics), SidecarWriter, ThreadPool
    collector,          \* the four std::atomic fields
    writer,             \* SidecarWriter: pending payload, hasWork, queueLock
    pool,               \* juce::ThreadPool{1}: the job's place and its thread
    daudio,             \* demo audio thread: pc and locals of push
    dui,                \* demo message thread: pc and locals of requestSidecar
    \* ---- threads
    audio,              \* audio thread: pc and locals
    worker,             \* FeatureCollector's thread: pc and locals
    ui,                 \* message thread: pc and locals
    \* ---- environment
    files,              \* path -> content of every file that exists
    dirs,               \* directories that exist
    now,                \* wall clock, seconds
    \* ---- history (not read by the program)
    hist

probeVars == << bufferSize, validStart, validEnd, fifoBuffer, wild, aggregator,
                snapshotRequested, writingSnapshot, pendingSnapshot, requestMutex,
                lastWritePath, threadShouldExit, samplesProcessed,
                currentSampleRate, captureEnabled >>
demoVars == << collector, writer, pool, daudio, dui >>
vars == << budget, variant, probeVars, demoVars, audio, worker, ui, files, dirs, now, hist >>

\* --------------------------------------------------------- juce::AbstractFifo
getNumReady(vs, ve, size) == IF ve >= vs THEN ve - vs ELSE size - (vs - ve)

getFreeSpace(vs, ve, size) == size - getNumReady(vs, ve, size) - 1

\* mutant: the slot AbstractFifo keeps free is given away
prepareToWrite_NoSpareSlot(numToWrite, vs, ve, size) ==
    LET freeSpace == IF ve >= vs THEN size - (ve - vs) ELSE vs - ve
        n == Min(numToWrite, freeSpace)
    IN  IF n <= 0
        THEN [start1 |-> 0, size1 |-> 0]
        ELSE [start1 |-> ve, size1 |-> Min(size - ve, n)]

prepareToWrite(numToWrite, vs, ve, size) ==
    LET freeSpace == IF ve >= vs THEN size - (ve - vs) ELSE vs - ve
        n == Min(numToWrite, freeSpace - 1)
    IN  IF n <= 0
        THEN [start1 |-> 0, size1 |-> 0]
        ELSE [start1 |-> ve, size1 |-> Min(size - ve, n)]

finishedWrite(ve, numWritten, size) ==
    LET newEnd == ve + numWritten
    IN  IF newEnd >= size THEN newEnd - size ELSE newEnd

prepareToRead(numWanted, vs, ve, size) ==
    LET numReady == IF ve >= vs THEN ve - vs ELSE size - (vs - ve)
        n == Min(numWanted, numReady)
    IN  IF n <= 0
        THEN [start1 |-> 0, size1 |-> 0]
        ELSE [start1 |-> vs, size1 |-> Min(size - vs, n)]

finishedRead(vs, numRead, size) ==
    LET newStart == vs + numRead
    IN  IF newStart >= size THEN newStart - size ELSE newStart

\* The value fifo(fifoCapacity) reads: fifoCapacity is declared after fifo and
\* is still uninitialised when fifo is constructed, so the read is of an
\* indeterminate int.  Three outcomes stand for all: nothing (0 and every
\* value up to 1 hold no frame), the intended size, and more than fifoBuffer
\* holds.
BufferSizeOutcomes == {0, fifoCapacity, fifoCapacity + 1}

\* ------------------------------------------------------------- Aggregator
\* mutant: reset forgets lastTimelineWrite = -1.0
AggregatorReset_KeepsTimelineMark(agg) ==
    [agg EXCEPT !.totalSeconds = 0, !.sumSquares = 0, !.totalSamples = 0,
                !.maxPeak = 0, !.timeline = << >>]

AggregatorReset(agg) ==
    [agg EXCEPT !.totalSeconds = 0, !.sumSquares = 0, !.totalSamples = 0,
                !.maxPeak = 0, !.lastTimelineWrite = kNoTimelineWrite,
                !.timeline = << >>]

\* a linear gain: sqrt(num / den) when root, else num / den
Gain(num, den, root) == [num |-> num, den |-> den, root |-> root]

\* gainToDecibels(gain + kEpsilon).  A gain of 0 gives 20*log10(1e-9) = -180,
\* which gainToDecibels raises to its floor; any other gain of the model is
\* far above the floor, and the decibel value is named by the gain it is of.
gainToDecibels(gain) ==
    IF gain.num = 0
    THEN [db |-> kMinusInfinityDb, of |-> Gain(0, 1, FALSE)]
    ELSE [db |-> 0, of |-> gain]

\* mutant: a timeline point only every 0.5 s
ingest_SpacingDoubled(agg, frame) ==
    LET blockDuration ==
            IF frame.sampleCount > 0 /\ agg.sampleRate > 0
            THEN (frame.sampleCount * TicksPerSec) \div agg.sampleRate
            ELSE 0
        first == agg.lastTimelineWrite < 0
        spacedOut == (frame.timestampSec - agg.lastTimelineWrite) >= 2 * kTimelineSpacingSec
        point == [timeSec |-> frame.timestampSec,
                  rmsDb |-> gainToDecibels(Gain(frame.sumSquares, Max(1, frame.sampleCount), TRUE)),
                  peakDb |-> gainToDecibels(Gain(frame.peakLinear, 1, FALSE))]
        acc == [agg EXCEPT
                  !.totalSeconds = Max(agg.totalSeconds, frame.timestampSec + blockDuration),
                  !.sumSquares = agg.sumSquares + frame.sumSquares,
                  !.totalSamples = agg.totalSamples + frame.sampleCount,
                  !.maxPeak = Max(agg.maxPeak, frame.peakLinear)]
    IN  IF first \/ spacedOut
        THEN [acc EXCEPT !.lastTimelineWrite = frame.timestampSec,
                         !.timeline = Append(agg.timeline, point)]
        ELSE acc

\* mutant: the sum of squares is overwritten, not accumulated
ingest_SumOverwritten(agg, frame) ==
    LET blockDuration ==
            IF frame.sampleCount > 0 /\ agg.sampleRate > 0
            THEN (frame.sampleCount * TicksPerSec) \div agg.sampleRate
            ELSE 0
        first == agg.lastTimelineWrite < 0
        spacedOut == (frame.timestampSec - agg.lastTimelineWrite) >= kTimelineSpacingSec
        point == [timeSec |-> frame.timestampSec,
                  rmsDb |-> gainToDecibels(Gain(frame.sumSquares, Max(1, frame.sampleCount), TRUE)),
                  peakDb |-> gainToDecibels(Gain(frame.peakLinear, 1, FALSE))]
        acc == [agg EXCEPT
                  !.totalSeconds = Max(agg.totalSeconds, frame.timestampSec + blockDuration),
                  !.sumSquares = frame.sumSquares,
                  !.totalSamples = agg.totalSamples + frame.sampleCount,
                  !.maxPeak = Max(agg.maxPeak, frame.peakLinear)]
    IN  IF first \/ spacedOut
        THEN [acc EXCEPT !.lastTimelineWrite = frame.timestampSec,
                         !.timeline = Append(agg.timeline, point)]
        ELSE acc

\* mutant: the duration follows the last frame, not the latest end
ingest_NoHighWaterMark(agg, frame) ==
    LET blockDuration ==
            IF frame.sampleCount > 0 /\ agg.sampleRate > 0
            THEN (frame.sampleCount * TicksPerSec) \div agg.sampleRate
            ELSE 0
        first == agg.lastTimelineWrite < 0
        spacedOut == (frame.timestampSec - agg.lastTimelineWrite) >= kTimelineSpacingSec
        point == [timeSec |-> frame.timestampSec,
                  rmsDb |-> gainToDecibels(Gain(frame.sumSquares, Max(1, frame.sampleCount), TRUE)),
                  peakDb |-> gainToDecibels(Gain(frame.peakLinear, 1, FALSE))]
        acc == [agg EXCEPT
                  !.totalSeconds = frame.timestampSec + blockDuration,
                  !.sumSquares = agg.sumSquares + frame.sumSquares,
                  !.totalSamples = agg.totalSamples + frame.sampleCount,
                  !.maxPeak = Max(agg.maxPeak, frame.peakLinear)]
    IN  IF first \/ spacedOut
        THEN [acc EXCEPT !.lastTimelineWrite = frame.timestampSec,
                         !.timeline = Append(agg.timeline, point)]
        ELSE acc

\* mutant: every frame is recorded in the timeline
ingest_AlwaysRecords(agg, frame) ==
    LET blockDuration ==
            IF frame.sampleCount > 0 /\ agg.sampleRate > 0
            THEN (frame.sampleCount * TicksPerSec) \div agg.sampleRate
            ELSE 0
        first == agg.lastTimelineWrite < 0
        spacedOut == (frame.timestampSec - agg.lastTimelineWrite) >= kTimelineSpacingSec
        point == [timeSec |-> frame.timestampSec,
                  rmsDb |-> gainToDecibels(Gain(frame.sumSquares, Max(1, frame.sampleCount), TRUE)),
                  peakDb |-> gainToDecibels(Gain(frame.peakLinear, 1, FALSE))]
        acc == [agg EXCEPT
                  !.totalSeconds = Max(agg.totalSeconds, frame.timestampSec + blockDuration),
                  !.sumSquares = agg.sumSquares + frame.sumSquares,
                  !.totalSamples = agg.totalSamples + frame.sampleCount,
                  !.maxPeak = Max(agg.maxPeak, frame.peakLinear)]
    IN  IF first \/ spacedOut \/ TRUE
        THEN [acc EXCEPT !.lastTimelineWrite = frame.timestampSec,
                         !.timeline = Append(agg.timeline, point)]
        ELSE acc

ingest(agg, frame) ==
    LET blockDuration ==
            IF frame.sampleCount > 0 /\ agg.sampleRate > 0
            THEN (frame.sampleCount * TicksPerSec) \div agg.sampleRate
            ELSE 0
        first == agg.lastTimelineWrite < 0
        spacedOut == (frame.timestampSec - agg.lastTimelineWrite) >= kTimelineSpacingSec
        point == [timeSec |-> frame.timestampSec,
                  rmsDb |-> gainToDecibels(Gain(frame.sumSquares, Max(1, frame.sampleCount), TRUE)),
                  peakDb |-> gainToDecibels(Gain(frame.peakLinear, 1, FALSE))]
        acc == [agg EXCEPT
                  !.totalSeconds = Max(agg.totalSeconds, frame.timestampSec + blockDuration),
                  !.sumSquares = agg.sumSquares + frame.sumSquares,
                  !.totalSamples = agg.totalSamples + frame.sampleCount,
                  !.maxPeak = Max(agg.maxPeak, frame.peakLinear)]
    IN  IF first \/ spacedOut
        THEN [acc EXCEPT !.lastTimelineWrite = frame.timestampSec,
                         !.timeline = Append(agg.timeline, point)]
        ELSE acc

\* ------------------------------------------------------------- makeFrame
RECURSIVE SumSq(_)
SumSq(s) == IF s = << >> THEN 0 ELSE Head(s) * Head(s) + SumSq(Tail(s))
RECURSIVE PeakOf(_)
PeakOf(s) == IF s = << >> THEN 0 ELSE Max(Abs(Head(s)), PeakOf(Tail(s)))
RECURSIVE BlockSumSq(_)
BlockSumSq(b) == IF b = << >> THEN 0 ELSE SumSq(Head(b)) + BlockSumSq(Tail(b))
RECURSIVE BlockPeak(_)
BlockPeak(b) == IF b = << >> THEN 0 ELSE Max(PeakOf(Head(b)), BlockPeak(Tail(b)))

makeFrame(buffer, numSamples, processed, sr) ==
    [sampleCount |-> numSamples * getNumChannels(buffer),
     sumSquares |-> BlockSumSq(buffer),
     peakLinear |-> BlockPeak(buffer),
     timestampSec |-> (processed * TicksPerSec) \div Max(1, sr)]

\* ------------------------------------------------------------ output paths
NoPath == [root |-> "", track |-> << >>, stamp |-> 0]
NoFolder == NoPath
MA_DATA_ROOT == budget.env

\* juce::String::trim: whitespace removed at both ends
Whitespace == { " " }
RECURSIVE trimStart(_)
trimStart(s) == IF s # << >> /\ Head(s) \in Whitespace THEN trimStart(Tail(s)) ELSE s
RECURSIVE trimEnd(_)
trimEnd(s) ==
    IF s # << >> /\ s[Len(s)] \in Whitespace THEN trimEnd(SubSeq(s, 1, Len(s) - 1)) ELSE s
trim(s) == trimEnd(trimStart(s))

\* juce::File::createLegalFileName: every character of "#@,;:<>*^|?\/ and
\* the double quote is removed (the cut to 128 characters is out of reach
\* of the ids of the model)
IllegalFileNameChars == { "\"", "#", "@", ",", ";", ":", "<", ">", "*", "^", "|", "?", "\\", "/" }
IsLegalChar(c) == c \notin IllegalFileNameChars
createLegalFileName(s) == SelectSeq(s, IsLegalChar)

sanitiseId(raw) ==
    LET cleaned == trim(raw)
    IN  createLegalFileName(IF cleaned = << >> THEN kUntitled ELSE cleaned)

\* juce::File(path).getAbsoluteFile(): an absolute path as it is, a relative
\* one below the current working directory
RelativePaths == { "rel" }
getAbsoluteFile(path) == IF path \in RelativePaths THEN "/cwd/rel" ELSE path

\* home.getChildFile("music-advisor").getChildFile("data")
kHomeDataRoot == "~/music-advisor/data"

defaultDataRoot ==
    IF MA_DATA_ROOT.set /\ MA_DATA_ROOT.value # ""
    THEN getAbsoluteFile(MA_DATA_ROOT.value)
    ELSE kHomeDataRoot

resolveDataRoot(req) ==
    IF req.dataRootOverride # ""
    THEN getAbsoluteFile(req.dataRootOverride)
    ELSE defaultDataRoot

\* trackFolder.getChildFile(timestamp): the clock is formatted to the second
snapshotFolder(req, clock) ==
    [root |-> resolveDataRoot(req), track |-> sanitiseId(req.trackId), stamp |-> clock]

NoReport ==
    [request |-> NoRequest,
     global |-> [duration_sec |-> 0,
                 integrated_rms_db |-> gainToDecibels(Gain(0, 1, TRUE)),
                 peak_db |-> gainToDecibels(Gain(0, 1, FALSE))],
     timeline |-> << >>]
\* a file that exists and holds nothing (created, or truncated)
EmptyFile == [written |-> FALSE, json |-> NoReport, samples |-> 0]

\* the JSON document writeSnapshot builds from the request and the aggregate
BuildReport(req, agg) ==
    [request |-> req,
     global |-> [duration_sec |-> agg.totalSeconds,
                 integrated_rms_db |->
                     gainToDecibels(Gain(agg.sumSquares, Max(1, agg.totalSamples), TRUE)),
                 peak_db |-> gainToDecibels(Gain(agg.maxPeak, 1, FALSE))],
     timeline |-> agg.timeline]

\* ----------------------------------------------------- demo: value types
\* FeatureCollector::sampleRate{44100.0}, ProbeStats::sampleRate = 44100.0
kDemoSampleRate == 44100

NoStats ==
    [rms |-> Gain(0, 1, TRUE), peak |-> 0, crest |-> Gain(0, 1, FALSE), samples |-> 0,
     sampleRate |-> kDemoSampleRate]
NoMeta == [id |-> 0, trackId |-> << >>]

\* the ProbeStats snapshotAndReset returns for what its three exchanges read
MakeStats(sum, pk, n, sr) ==
    IF n > 0
    THEN [rms |-> Gain(sum, n, TRUE), peak |-> pk,
          crest |-> IF sum > 0 THEN Gain(pk * pk * n, sum, TRUE) ELSE Gain(0, 1, FALSE),
          samples |-> n, sampleRate |-> sr]
    ELSE [NoStats EXCEPT !.samples = n, !.sampleRate = sr]

\* SidecarWriter::defaultRoot() / track / timestamp.  defaultRoot() is the
\* home data root with features_output/juce_probe, the two folders that
\* writeSnapshot appends to its root as well.
sidecarFolder(meta, clock) ==
    [root |-> kHomeDataRoot,
     track |-> IF meta.trackId = << >> THEN kUntitled ELSE meta.trackId,
     stamp |-> clock]

\* the JSON document writeSidecar builds
SidecarJson(stats, meta) ==
    [track_id |-> meta.trackId, meta |-> meta, sample_rate |-> stats.sampleRate,
     features |-> [rms |-> stats.rms, peak |-> stats.peak, crest |-> stats.crest]]

\* ------------------------------------------------------------------- Init
InitAggregator ==
    AggregatorReset([sampleRate |-> kDefaultSampleRate, totalSeconds |-> 0,
                     sumSquares |-> 0, totalSamples |-> 0, maxPeak |-> 0,
                     lastTimelineWrite |-> kNoTimelineWrite, timeline |-> << >>])

InitHist ==
    [accepted |-> << >>,      \* frames pushFrame accepted since the last reset
     ingested |-> << >>,      \* frames passed to ingest since the last reset
     pushed |-> 0,            \* pushFrame calls since the last reset
     drains |-> 0,            \* frames the worker read since the last reset
     pushCount |-> 0,         \* processBlock calls
     resets |-> 0,            \* prepareToPlay and releaseResources calls
     reqIssued |-> 0,         \* requestSnapshot calls started
     reqReturned |-> 0,       \* requestSnapshot calls returned
     attempts |-> << >>,      \* request id of every write that was started
     outcomes |-> << >>,      \* how every write that returned ended
     pair |-> 0,              \* the later of two requests both submitted
                              \* before the worker had taken either
     polled |-> NoPath,       \* what getLastWritePath returned last
     blocks |-> << >>,        \* buffers FeatureCollector::push accumulated
     seen |-> << >>,          \* per request: frames accepted since the last
                              \* reset when requestSnapshot was called
     taken |-> [sum |-> 0, samples |-> 0],
                              \* what snapshotAndReset's exchanges returned,
                              \* added up over all calls
     enqueued |-> {}]         \* the (stats, meta) pairs enqueue was called with

InitRun(run) ==
    /\ budget = run
    /\ variant \in {"probe", "demo"}
    /\ bufferSize \in (IF variant = "probe" THEN BufferSizeOutcomes ELSE {fifoCapacity})
    /\ validStart = 0
    /\ validEnd = 0
    /\ fifoBuffer = [i \in 0..(fifoCapacity - 1) |-> NoFrame]
    /\ wild = GarbageFrame
    /\ aggregator = InitAggregator
    /\ snapshotRequested = FALSE
    /\ writingSnapshot = FALSE
    /\ pendingSnapshot = NoRequest
    /\ requestMutex = "none"
    /\ lastWritePath = NoPath
    /\ threadShouldExit = FALSE
    /\ samplesProcessed = 0
    /\ currentSampleRate = 0
    /\ captureEnabled = TRUE
    /\ audio = [pc |-> "idle", prepared |-> FALSE, frame |-> NoFrame,
                start1 |-> 0, size1 |-> 0, numSamples |-> 0]
    /\ worker = [pc |-> "loop", start1 |-> 0, size1 |-> 0, requestCopy |-> NoRequest,
                 folder |-> NoFolder, json |-> NoReport, samples |-> 0,
                 result |-> FALSE, why |-> ""]
    /\ ui = [pc |-> "idle", request |-> NoRequest, path |-> NoPath]
    /\ collector = [sumSquares |-> 0, peak |-> 0, totalSamples |-> 0,
                    sampleRate |-> kDemoSampleRate]
    /\ writer = [pendingStats |-> NoStats, pendingMeta |-> NoMeta, hasWork |-> FALSE,
                 queueLock |-> "none"]
    /\ pool = [job |-> "none", pc |-> "idle", statsCopy |-> NoStats,
               metaCopy |-> NoMeta, outDir |-> NoFolder]
    /\ daudio = [pc |-> "idle", localPeak |-> 0, localSum |-> 0, numSamples |-> 0,
                 loaded |-> 0]
    /\ dui = [pc |-> "idle", meta |-> NoMeta, sum |-> 0, pk |-> 0, stats |-> NoStats]
    /\ files = [p \in {} |-> EmptyFile]
    /\ dirs = {}
    /\ now = 0
    /\ hist = InitHist

Init == \E run \in Runs : InitRun(run)

\* History only: request r returns, r - 1 was submitted before it, and the
\* background thread has neither taken a copy of one of the two (taken is the
\* request it holds a copy of) nor started a write for one of them.
Unserviced(r, taken) ==
    /\ r >= 2
    /\ taken \notin {r - 1, r}
    /\ \A i \in 1..Len(hist.attempts) : hist.attempts[i] \notin {r - 1, r}

\* ------------------------------------------------------ host (lifecycle)
\* The host calls prepareToPlay and releaseResources only while it is not
\* inside processBlock; FeatureCollector's own thread keeps running.
prepare(sampleRate) ==
    /\ aggregator' = AggregatorReset([aggregator EXCEPT !.sampleRate = sampleRate])
    /\ validEnd' = 0
    /\ validStart' = 0

reset ==
    /\ aggregator' = AggregatorReset(aggregator)
    /\ validEnd' = 0
    /\ validStart' = 0
    /\ lastWritePath' = NoPath

HistReset ==
    [hist EXCEPT !.accepted = << >>, !.ingested = << >>, !.pushed = 0,
                 !.drains = 0, !.resets = hist.resets + 1,
                 !.seen = [i \in 1..Len(hist.seen) |-> 0]]

prepareToPlay(sampleRate) ==
    /\ variant = "probe"
    /\ ~threadShouldExit
    /\ audio.pc = "idle"
    /\ hist.resets < budget.resets
    /\ samplesProcessed' = 0
    /\ currentSampleRate' = sampleRate
    /\ prepare(sampleRate)
    /\ audio' = [audio EXCEPT !.prepared = TRUE]
    /\ hist' = HistReset
    /\ UNCHANGED << budget, variant, demoVars, bufferSize, fifoBuffer, wild, snapshotRequested,
                    writingSnapshot, pendingSnapshot, requestMutex, lastWritePath,
                    threadShouldExit, captureEnabled, worker, ui, files, dirs, now >>

releaseResources ==
    /\ variant = "probe"
    /\ ~threadShouldExit
    /\ audio.pc = "idle"
    /\ audio.prepared
    /\ hist.resets < budget.resets
    /\ reset
    /\ audio' = [audio EXCEPT !.prepared = FALSE]
    /\ hist' = HistReset
    /\ UNCHANGED << budget, variant, demoVars, bufferSize, fifoBuffer, wild, snapshotRequested,
                    writingSnapshot, pendingSnapshot, requestMutex,
                    threadShouldExit, samplesProcessed, currentSampleRate,
                    captureEnabled, worker, ui, files, dirs, now >>

\* ----------------------------------------------------------- audio thread
\* pushFrame up to the end of fifo.prepareToWrite(1, ...): with size1 = 0 the
\* frame is dropped and pushFrame returns
pushFrame(frame) ==
    LET w == prepareToWrite(1, validStart, validEnd, bufferSize)
    IN  IF w.size1 > 0
        THEN [audio EXCEPT !.pc = "store", !.frame = frame,
                           !.start1 = w.start1, !.size1 = w.size1]
        ELSE audio

\* mutant: processBlock pushes a frame whatever capture_enabled says
processBlock_IgnoresCapture(buffer) ==
    /\ variant = "probe"
    /\ ~threadShouldExit
    /\ audio.pc = "idle"
    /\ audio.prepared
    /\ hist.pushCount < budget.pushes
    /\ LET numSamples == getNumSamples(buffer)
           frame == makeFrame(buffer, numSamples, samplesProcessed, currentSampleRate)
       IN  /\ audio' = [pushFrame(frame) EXCEPT !.numSamples =
                            IF pushFrame(frame).pc = "idle" THEN 0 ELSE numSamples]
           /\ samplesProcessed' = IF audio'.pc = "idle"
                                  THEN samplesProcessed + numSamples
                                  ELSE samplesProcessed
           /\ hist' = [hist EXCEPT !.pushCount = @ + 1,
                                   !.pushed = IF captureEnabled THEN @ + 1 ELSE @]
    /\ UNCHANGED << budget, variant, demoVars, bufferSize, validStart, validEnd, fifoBuffer, wild,
                    aggregator, snapshotRequested, writingSnapshot, pendingSnapshot,
                    requestMutex, lastWritePath, threadShouldExit, currentSampleRate,
                    captureEnabled, worker, ui, files, dirs, now >>

\* processBlock: the capture_enabled test, makeFrame and the call of pushFrame;
\* samplesProcessed += numSamples follows pushFrame's return
processBlock(buffer) ==
    /\ variant = "probe"
    /\ ~threadShouldExit
    /\ audio.pc = "idle"
    /\ audio.prepared
    /\ hist.pushCount < budget.pushes
    /\ LET numSamples == getNumSamples(buffer)
           frame == makeFrame(buffer, numSamples, samplesProcessed, currentSampleRate)
       IN  IF captureEnabled /\ getNumChannels(buffer) > 0 /\ numSamples > 0
           THEN /\ audio' = [pushFrame(frame) EXCEPT !.numSamples =
                                 IF pushFrame(frame).pc = "idle" THEN 0 ELSE numSamples]
                /\ samplesProcessed' = IF audio'.pc = "idle"
                                       THEN samplesProcessed + numSamples
                                       ELSE samplesProcessed
                /\ hist' = [hist EXCEPT !.pushCount = @ + 1, !.pushed = @ + 1]
           ELSE /\ audio' = audio
                /\ samplesProcessed' = samplesProcessed + numSamples
                /\ hist' = [hist EXCEPT !.pushCount = @ + 1]
    /\ UNCHANGED << budget, variant, demoVars, bufferSize, validStart, validEnd, fifoBuffer, wild,
                    aggregator, snapshotRequested, writingSnapshot, pendingSnapshot,
                    requestMutex, lastWritePath, threadShouldExit, currentSampleRate,
                    captureEnabled, worker, ui, files, dirs, now >>

\* mutant: pushFrame guards the slot with requestMutex
pushFrameStore_Locked ==
    /\ variant = "probe"
    /\ audio.pc = "store"
    /\ requestMutex = "none"
    /\ IF audio.start1 < fifoCapacity
       THEN /\ fifoBuffer' = [fifoBuffer EXCEPT ![audio.start1] = audio.frame]
            /\ wild' = wild
       ELSE /\ fifoBuffer' = fifoBuffer
            /\ wild' = audio.frame
    /\ audio' = [audio EXCEPT !.pc = "publish"]
    /\ UNCHANGED << budget, variant, demoVars, bufferSize, validStart, validEnd,
                    aggregator, snapshotRequested, writingSnapshot, pendingSnapshot,
                    requestMutex, lastWritePath, threadShouldExit, samplesProcessed,
                    currentSampleRate, captureEnabled, worker, ui, files, dirs, now,
                    hist >>

\* fifoBuffer[(size_t) start1] = frame
pushFrameStore ==
    /\ variant = "probe"
    /\ audio.pc = "store"
    /\ IF audio.start1 < fifoCapacity
       THEN /\ fifoBuffer' = [fifoBuffer EXCEPT ![audio.start1] = audio.frame]
            /\ wild' = wild
       ELSE /\ fifoBuffer' = fifoBuffer
            /\ wild' = audio.frame
    /\ audio' = [audio EXCEPT !.pc = "publish"]
    /\ UNCHANGED << budget, variant, demoVars, bufferSize, validStart, validEnd, aggregator,
                    snapshotRequested, writingSnapshot, pendingSnapshot, requestMutex,
                    lastWritePath, threadShouldExit, samplesProcessed,
                    currentSampleRate, captureEnabled, worker, ui, files, dirs, now,
                    hist >>

\* fifo.finishedWrite(size1), then processBlock's samplesProcessed += numSamples
pushFramePublish ==
    /\ variant = "probe"
    /\ audio.pc = "publish"
    /\ validEnd' = finishedWrite(validEnd, audio.size1, bufferSize)
    /\ samplesProcessed' = samplesProcessed + audio.numSamples
    /\ audio' = [audio EXCEPT !.pc = "idle", !.frame = NoFrame, !.start1 = 0,
                          !.size1 = 0, !.numSamples = 0]
    /\ hist' = [hist EXCEPT !.accepted = Append(@, audio.frame)]
    /\ UNCHANGED << budget, variant, demoVars, bufferSize, validStart, fifoBuffer, wild, aggregator,
                    snapshotRequested, writingSnapshot, pendingSnapshot, requestMutex,
                    lastWritePath, threadShouldExit, currentSampleRate,
                    captureEnabled, worker, ui, files, dirs, now >>

\* ---------------------------------------------------------- worker thread
\* FeatureCollector::run, one action per statement that touches shared state.
workerOnly == << budget, variant, demoVars, bufferSize, validEnd, fifoBuffer, wild, threadShouldExit,
                 samplesProcessed, currentSampleRate, captureEnabled, audio, ui, now >>

\* while (! threadShouldExit())
runLoop ==
    /\ variant = "probe"
    /\ worker.pc = "loop"
    /\ worker' = [worker EXCEPT !.pc = IF threadShouldExit THEN "exited" ELSE "drain_check"]
    /\ UNCHANGED << workerOnly, validStart, aggregator, snapshotRequested,
                    writingSnapshot, pendingSnapshot, requestMutex, lastWritePath,
                    files, dirs, hist >>

\* while (fifo.getNumReady() > 0)
drainCheck ==
    /\ variant = "probe"
    /\ worker.pc = "drain_check"
    /\ worker' = [worker EXCEPT !.pc =
                     IF getNumReady(validStart, validEnd, bufferSize) > 0
                     THEN "drain_prepare" ELSE "snap_check"]
    /\ UNCHANGED << workerOnly, validStart, aggregator, snapshotRequested,
                    writingSnapshot, pendingSnapshot, requestMutex, lastWritePath,
                    files, dirs, hist >>

\* fifo.prepareToRead(1, start1, size1, start2, size2)
drainPrepare ==
    /\ variant = "probe"
    /\ worker.pc = "drain_prepare"
    /\ LET r == prepareToRead(1, validStart, validEnd, bufferSize)
       IN  worker' = [worker EXCEPT !.pc = "drain_ingest", !.start1 = r.start1,
                                    !.size1 = r.size1]
    /\ UNCHANGED << workerOnly, validStart, aggregator, snapshotRequested,
                    writingSnapshot, pendingSnapshot, requestMutex, lastWritePath,
                    files, dirs, hist >>

\* what fifoBuffer[(size_t) start1] reads: the slot, or, past the end of the
\* vector, what a push left there or whatever else the memory holds
SlotValues(start1) ==
    IF start1 < fifoCapacity THEN {fifoBuffer[start1]} ELSE {wild, GarbageFrame}

\* if (size1 > 0) aggregator.ingest(fifoBuffer[(size_t) start1]);
drainIngest ==
    /\ variant = "probe"
    /\ worker.pc = "drain_ingest"
    /\ IF worker.size1 > 0
       THEN \E frame \in SlotValues(worker.start1) :
                /\ aggregator' = ingest(aggregator, frame)
                /\ hist' = [hist EXCEPT !.ingested = Append(@, frame), !.drains = @ + 1]
       ELSE /\ aggregator' = aggregator
            /\ hist' = hist
    /\ worker' = [worker EXCEPT !.pc = "drain_finish"]
    /\ UNCHANGED << workerOnly, validStart, snapshotRequested, writingSnapshot,
                    pendingSnapshot, requestMutex, lastWritePath, files, dirs >>

\* fifo.finishedRead(size1)
drainFinish ==
    /\ variant = "probe"
    /\ worker.pc = "drain_finish"
    /\ validStart' = finishedRead(validStart, worker.size1, bufferSize)
    /\ worker' = [worker EXCEPT !.pc = "drain_check", !.start1 = 0, !.size1 = 0]
    /\ UNCHANGED << workerOnly, aggregator, snapshotRequested, writingSnapshot,
                    pendingSnapshot, requestMutex, lastWritePath, files, dirs, hist >>

\* if (! snapshotRequested.load()) return;
snapCheck ==
    /\ variant = "probe"
    /\ worker.pc = "snap_check"
    /\ worker' = [worker EXCEPT !.pc = IF snapshotRequested THEN "snap_lock" ELSE "wait"]
    /\ UNCHANGED << workerOnly, validStart, aggregator, snapshotRequested,
                    writingSnapshot, pendingSnapshot, requestMutex, lastWritePath,
                    files, dirs, hist >>

\* mutant: the worker copies the payload without waiting for the mutex
snapLock_NoWait ==
    /\ variant = "probe"
    /\ worker.pc = "snap_lock"
    /\ requestMutex' = "worker"
    /\ worker' = [worker EXCEPT !.pc = "snap_copy"]
    /\ UNCHANGED << workerOnly, validStart, aggregator, snapshotRequested,
                    writingSnapshot, pendingSnapshot, lastWritePath, files, dirs, hist >>

\* const std::lock_guard<std::mutex> lock(requestMutex);
snapLock ==
    /\ variant = "probe"
    /\ worker.pc = "snap_lock"
    /\ requestMutex = "none"
    /\ requestMutex' = "worker"
    /\ worker' = [worker EXCEPT !.pc = "snap_copy"]
    /\ UNCHANGED << workerOnly, validStart, aggregator, snapshotRequested,
                    writingSnapshot, pendingSnapshot, lastWritePath, files, dirs, hist >>

\* mutant: the lock taken for the copy is not released before the write
snapCopy_LockHeldOverWrite ==
    /\ variant = "probe"
    /\ worker.pc = "snap_copy"
    /\ requestMutex' = requestMutex
    /\ worker' = [worker EXCEPT !.pc = "snap_clear", !.requestCopy = pendingSnapshot]
    /\ UNCHANGED << workerOnly, validStart, aggregator, snapshotRequested,
                    writingSnapshot, pendingSnapshot, lastWritePath, files, dirs, hist >>

\* requestCopy = pendingSnapshot; and the end of the lock's scope
snapCopy ==
    /\ variant = "probe"
    /\ worker.pc = "snap_copy"
    /\ requestMutex' = "none"
    /\ worker' = [worker EXCEPT !.pc = "snap_clear", !.requestCopy = pendingSnapshot]
    /\ UNCHANGED << workerOnly, validStart, aggregator, snapshotRequested,
                    writingSnapshot, pendingSnapshot, lastWritePath, files, dirs, hist >>

\* snapshotRequested.store(false);
snapClear ==
    /\ variant = "probe"
    /\ worker.pc = "snap_clear"
    /\ snapshotRequested' = FALSE
    /\ worker' = [worker EXCEPT !.pc = "snap_mark"]
    /\ UNCHANGED << workerOnly, validStart, aggregator, writingSnapshot,
                    pendingSnapshot, requestMutex, lastWritePath, files, dirs, hist >>

\* writingSnapshot.store(true);
snapMark ==
    /\ variant = "probe"
    /\ worker.pc = "snap_mark"
    /\ writingSnapshot' = TRUE
    /\ worker' = [worker EXCEPT !.pc = "write_guard"]
    /\ UNCHANGED << workerOnly, validStart, aggregator, snapshotRequested,
                    pendingSnapshot, requestMutex, lastWritePath, files, dirs, hist >>

\* mutant: the guard lets a sample count of 0 through
nothingCaptured_NegativeOnly(agg) == agg.totalSamples < 0

\* if (aggregator.totalSamples <= 0) return false;
nothingCaptured(agg) == agg.totalSamples <= 0

\* writeSnapshot entered: the guard; else the destination folder is named
\* from the request and the clock
writeGuard ==
    /\ variant = "probe"
    /\ worker.pc = "write_guard"
    /\ IF nothingCaptured(aggregator)
       THEN worker' = [worker EXCEPT !.pc = "snap_unmark", !.result = FALSE,
                                     !.why = "empty"]
       ELSE worker' = [worker EXCEPT !.pc = "write_mkdir",
                                     !.folder = snapshotFolder(worker.requestCopy, now)]
    /\ hist' = [hist EXCEPT !.attempts = Append(@, worker.requestCopy.id)]
    /\ UNCHANGED << workerOnly, validStart, aggregator, snapshotRequested,
                    writingSnapshot, pendingSnapshot, requestMutex, lastWritePath,
                    files, dirs >>

\* mutant: a failed createDirectory raises the request flag again
writeMkdir_Retry ==
    /\ variant = "probe"
    /\ worker.pc = "write_mkdir"
    /\ \/ /\ dirs' = dirs \cup {worker.folder}
          /\ snapshotRequested' = snapshotRequested
          /\ worker' = [worker EXCEPT !.pc = "write_build"]
       \/ /\ dirs' = dirs
          /\ snapshotRequested' = TRUE
          /\ worker' = [worker EXCEPT !.pc = "snap_unmark", !.result = FALSE,
                                        !.why = "mkdir"]
    /\ UNCHANGED << workerOnly, validStart, aggregator, writingSnapshot,
                    pendingSnapshot, requestMutex, lastWritePath, files, hist >>

\* if (! snapshotFolder.createDirectory()) return false;
writeMkdir ==
    /\ variant = "probe"
    /\ worker.pc = "write_mkdir"
    /\ \/ /\ dirs' = dirs \cup {worker.folder}
          /\ worker' = [worker EXCEPT !.pc = "write_build"]
       \/ /\ dirs' = dirs
          /\ worker' = [worker EXCEPT !.pc = "snap_unmark", !.result = FALSE,
                                        !.why = "mkdir"]
    /\ UNCHANGED << workerOnly, validStart, aggregator, snapshotRequested,
                    writingSnapshot, pendingSnapshot, requestMutex, lastWritePath,
                    files, hist >>

\* mutant: the write takes the aggregate and clears it, as snapshotAndReset does
writeBuild_TakesAndClears ==
    /\ variant = "probe"
    /\ worker.pc = "write_build"
    /\ worker' = [worker EXCEPT !.pc = "write_open",
                                !.json = BuildReport(worker.requestCopy, aggregator),
                                !.samples = aggregator.totalSamples]
    /\ aggregator' = AggregatorReset(aggregator)
    /\ UNCHANGED << workerOnly, validStart, snapshotRequested,
                    writingSnapshot, pendingSnapshot, requestMutex, lastWritePath,
                    files, dirs, hist >>

\* the derived metrics and the JSON document, built in memory
writeBuild ==
    /\ variant = "probe"
    /\ worker.pc = "write_build"
    /\ worker' = [worker EXCEPT !.pc = "write_open",
                                !.json = BuildReport(worker.requestCopy, aggregator),
                                !.samples = aggregator.totalSamples]
    /\ UNCHANGED << workerOnly, validStart, aggregator, snapshotRequested,
                    writingSnapshot, pendingSnapshot, requestMutex, lastWritePath,
                    files, dirs, hist >>

FilePut(fs, path, content) ==
    [p \in DOMAIN fs \cup {path} |-> IF p = path THEN content ELSE fs[p]]

\* juce::FileOutputStream out(outputFile); if (! out.openedOk()) return false;
\* opening creates the file when it does not exist and keeps it otherwise
writeOpen ==
    /\ variant = "probe"
    /\ worker.pc = "write_open"
    /\ \/ /\ files' = IF worker.folder \in DOMAIN files THEN files
                      ELSE FilePut(files, worker.folder,
                                   [EmptyFile EXCEPT !.samples = worker.samples])
          /\ worker' = [worker EXCEPT !.pc = "write_truncate"]
       \/ /\ files' = files
          /\ worker' = [worker EXCEPT !.pc = "snap_unmark", !.result = FALSE,
                                        !.why = "open"]
    /\ UNCHANGED << workerOnly, validStart, aggregator, snapshotRequested,
                    writingSnapshot, pendingSnapshot, requestMutex, lastWritePath,
                    dirs, hist >>

\* out.setPosition(0); out.truncate();
writeTruncate ==
    /\ variant = "probe"
    /\ worker.pc = "write_truncate"
    /\ files' = FilePut(files, worker.folder,
                        [EmptyFile EXCEPT !.samples = worker.samples])
    /\ worker' = [worker EXCEPT !.pc = "write_text"]
    /\ UNCHANGED << workerOnly, validStart, aggregator, snapshotRequested,
                    writingSnapshot, pendingSnapshot, requestMutex, lastWritePath,
                    dirs, hist >>

\* out.writeText(jsonStream.toString(), ...); out.flush();
writeText ==
    /\ variant = "probe"
    /\ worker.pc = "write_text"
    /\ files' = FilePut(files, worker.folder,
                        [written |-> TRUE, json |-> worker.json,
                         samples |-> worker.samples])
    /\ worker' = [worker EXCEPT !.pc = "write_publish"]
    /\ UNCHANGED << workerOnly, validStart, aggregator, snapshotRequested,
                    writingSnapshot, pendingSnapshot, requestMutex, lastWritePath,
                    dirs, hist >>

\* lastWritePath = outputFile.getFullPathName(); return true;
writePublish ==
    /\ variant = "probe"
    /\ worker.pc = "write_publish"
    /\ lastWritePath' = worker.folder
    /\ worker' = [worker EXCEPT !.pc = "snap_unmark", !.result = TRUE, !.why = "ok"]
    /\ UNCHANGED << workerOnly, validStart, aggregator, snapshotRequested,
                    writingSnapshot, pendingSnapshot, requestMutex, files, dirs, hist >>

\* mutant: the writing flag is cleared only after a successful write
snapUnmark_OnlyOnSuccess ==
    /\ variant = "probe"
    /\ worker.pc = "snap_unmark"
    /\ writingSnapshot' = IF worker.result THEN FALSE ELSE writingSnapshot
    /\ worker' = [worker EXCEPT !.pc = "wait", !.requestCopy = NoRequest,
                            !.folder = NoFolder, !.json = NoReport, !.samples = 0,
                            !.result = FALSE, !.why = ""]
    /\ hist' = [hist EXCEPT !.outcomes = Append(@, worker.why)]
    /\ UNCHANGED << workerOnly, validStart, aggregator, snapshotRequested,
                    pendingSnapshot, requestMutex, lastWritePath, files, dirs >>

\* writingSnapshot.store(false);
snapUnmark ==
    /\ variant = "probe"
    /\ worker.pc = "snap_unmark"
    /\ writingSnapshot' = FALSE
    /\ worker' = [worker EXCEPT !.pc = "wait", !.requestCopy = NoRequest,
                            !.folder = NoFolder, !.json = NoReport, !.samples = 0,
                            !.result = FALSE, !.why = ""]
    /\ hist' = [hist EXCEPT !.outcomes = Append(@, worker.why)]
    /\ UNCHANGED << workerOnly, validStart, aggregator, snapshotRequested,
                    pendingSnapshot, requestMutex, lastWritePath, files, dirs >>

\* wait(25): returns on notify() or after 25 ms
runWait ==
    /\ variant = "probe"
    /\ worker.pc = "wait"
    /\ worker' = [worker EXCEPT !.pc = "loop"]
    /\ UNCHANGED << workerOnly, validStart, aggregator, snapshotRequested,
                    writingSnapshot, pendingSnapshot, requestMutex, lastWritePath,
                    files, dirs, hist >>

WorkerStep ==
    \/ runLoop \/ drainCheck \/ drainPrepare \/ drainIngest \/ drainFinish
    \/ snapCheck \/ snapLock \/ snapCopy \/ snapClear \/ snapMark
    \/ writeGuard \/ writeMkdir \/ writeBuild \/ writeOpen \/ writeTruncate
    \/ writeText \/ writePublish \/ snapUnmark \/ runWait

\* --------------------------------------------------------------- UI thread
uiOnly == << budget, variant, demoVars, bufferSize, validStart, validEnd, fifoBuffer, wild, aggregator,
             writingSnapshot, lastWritePath, threadShouldExit, samplesProcessed,
             currentSampleRate, audio, worker, files, dirs, now >>

\* requestSnapshotFromUI builds the request; requestSnapshot takes requestMutex
requestSnapshotLock(trackId) ==
    /\ variant = "probe"
    /\ ~threadShouldExit
    /\ ui.pc = "idle"
    /\ hist.reqIssued < budget.requests
    /\ requestMutex = "none"
    /\ requestMutex' = "ui"
    /\ ui' = [ui EXCEPT !.pc = "store",
                         !.request = [id |-> hist.reqIssued + 1, trackId |-> trackId,
                                      dataRootOverride |-> ""]]
    /\ hist' = [hist EXCEPT !.reqIssued = @ + 1,
                            !.seen = Append(@, Len(hist.accepted))]
    /\ UNCHANGED << uiOnly, snapshotRequested, pendingSnapshot, captureEnabled >>

\* pendingSnapshot = request; and the end of the lock's scope
requestSnapshotStore ==
    /\ variant = "probe"
    /\ ui.pc = "store"
    /\ pendingSnapshot' = ui.request
    /\ requestMutex' = "none"
    /\ ui' = [ui EXCEPT !.pc = "flag"]
    /\ UNCHANGED << uiOnly, snapshotRequested, captureEnabled, hist >>

\* snapshotRequested.store(true); notify();
requestSnapshotFlag ==
    /\ variant = "probe"
    /\ ui.pc = "flag"
    /\ snapshotRequested' = TRUE
    /\ ui' = [ui EXCEPT !.pc = "idle", !.request = NoRequest]
    /\ hist' = [hist EXCEPT !.reqReturned = ui.request.id,
                            !.pair = IF Unserviced(ui.request.id, worker.requestCopy.id)
                                     THEN ui.request.id ELSE @]
    /\ UNCHANGED << uiOnly, pendingSnapshot, requestMutex, captureEnabled >>

\* the user toggles the capture_enabled parameter
setCaptureEnabled ==
    /\ variant = "probe"
    /\ ~threadShouldExit
    /\ ui.pc = "idle"
    /\ captureEnabled' = ~captureEnabled
    /\ UNCHANGED << uiOnly, snapshotRequested, pendingSnapshot, requestMutex, ui, hist >>

\* ~FeatureCollector: stopThread(2000) raises the exit flag and notifies
stopThread ==
    /\ variant = "probe"
    /\ ~threadShouldExit
    /\ audio.pc = "idle"
    /\ ui.pc = "idle"
    /\ threadShouldExit' = TRUE
    /\ UNCHANGED << budget, variant, demoVars, bufferSize, validStart, validEnd, fifoBuffer, wild,
                    aggregator, snapshotRequested, writingSnapshot, pendingSnapshot,
                    requestMutex, lastWritePath, samplesProcessed, currentSampleRate,
                    captureEnabled, audio, worker, ui, files, dirs, now, hist >>

\* a second passes on the wall clock
Tick ==
    /\ now < MaxClock
    /\ now' = now + 1
    /\ UNCHANGED << budget, variant, demoVars, probeVars, audio, worker, ui, files, dirs, hist >>

\* ================================================================= demo
demoOnly == << budget, variant, probeVars, audio, worker, ui, now >>

\* FeatureCollector::push up to its first atomic access: the early return
\* and the two local sums
push(buffer) ==
    /\ variant = "demo"
    /\ daudio.pc = "idle"
    /\ hist.pushCount < budget.pushes
    /\ LET numSamples == getNumSamples(buffer)
           numChannels == getNumChannels(buffer)
       IN  IF numSamples = 0 \/ numChannels = 0
           THEN daudio' = daudio
           ELSE daudio' = [daudio EXCEPT !.pc = "peak_load",
                                         !.localPeak = BlockPeak(buffer),
                                         !.localSum = BlockSumSq(buffer),
                                         !.numSamples = numSamples]
    /\ hist' = [hist EXCEPT !.pushCount = @ + 1,
                            !.blocks = IF getNumSamples(buffer) = 0 \/ getNumChannels(buffer) = 0
                                       THEN @ ELSE Append(@, buffer)]
    /\ UNCHANGED << demoOnly, collector, writer, pool, dui, files, dirs >>

\* peak.store(std::max(peak.load(), localPeak)): the load
pushPeakLoad ==
    /\ variant = "demo"
    /\ daudio.pc = "peak_load"
    /\ daudio' = [daudio EXCEPT !.pc = "peak_store", !.loaded = collector.peak]
    /\ UNCHANGED << demoOnly, collector, writer, pool, dui, files, dirs, hist >>

\* ... and the store
pushPeakStore ==
    /\ variant = "demo"
    /\ daudio.pc = "peak_store"
    /\ collector' = [collector EXCEPT !.peak = Max(daudio.loaded, daudio.localPeak)]
    /\ daudio' = [daudio EXCEPT !.pc = "sum_load", !.loaded = 0]
    /\ UNCHANGED << demoOnly, writer, pool, dui, files, dirs, hist >>

\* sumSquares.store(sumSquares.load() + localSum): the load
pushSumLoad ==
    /\ variant = "demo"
    /\ daudio.pc = "sum_load"
    /\ daudio' = [daudio EXCEPT !.pc = "sum_store", !.loaded = collector.sumSquares]
    /\ UNCHANGED << demoOnly, collector, writer, pool, dui, files, dirs, hist >>

\* ... and the store
pushSumStore ==
    /\ variant = "demo"
    /\ daudio.pc = "sum_store"
    /\ collector' = [collector EXCEPT !.sumSquares = daudio.loaded + daudio.localSum]
    /\ daudio' = [daudio EXCEPT !.pc = "n_load", !.loaded = 0]
    /\ UNCHANGED << demoOnly, writer, pool, dui, files, dirs, hist >>

\* totalSamples.store(totalSamples.load() + numSamples): the load
pushCountLoad ==
    /\ variant = "demo"
    /\ daudio.pc = "n_load"
    /\ daudio' = [daudio EXCEPT !.pc = "n_store", !.loaded = collector.totalSamples]
    /\ UNCHANGED << demoOnly, collector, writer, pool, dui, files, dirs, hist >>

\* ... and the store; push returns
pushCountStore ==
    /\ variant = "demo"
    /\ daudio.pc = "n_store"
    /\ collector' = [collector EXCEPT !.totalSamples = daudio.loaded + daudio.numSamples]
    /\ daudio' = [pc |-> "idle", localPeak |-> 0, localSum |-> 0, numSamples |-> 0,
                  loaded |-> 0]
    /\ UNCHANGED << demoOnly, writer, pool, dui, files, dirs, hist >>

\* requestSidecar(meta): snapshotAndReset's sumSquares.exchange(0.0)
requestSidecar(trackId) ==
    /\ variant = "demo"
    /\ dui.pc = "idle"
    /\ hist.reqIssued < budget.requests
    /\ dui' = [dui EXCEPT !.pc = "x_peak", !.sum = collector.sumSquares,
                          !.meta = [id |-> hist.reqIssued + 1, trackId |-> trackId]]
    /\ collector' = [collector EXCEPT !.sumSquares = 0]
    /\ hist' = [hist EXCEPT !.reqIssued = @ + 1,
                            !.taken.sum = @ + collector.sumSquares]
    /\ UNCHANGED << demoOnly, writer, pool, daudio, files, dirs >>

\* peak.exchange(0.0f)
snapshotPeak ==
    /\ variant = "demo"
    /\ dui.pc = "x_peak"
    /\ dui' = [dui EXCEPT !.pc = "x_n", !.pk = collector.peak]
    /\ collector' = [collector EXCEPT !.peak = 0]
    /\ UNCHANGED << demoOnly, writer, pool, daudio, files, dirs, hist >>

\* totalSamples.exchange(0) and the ProbeStats made of the three values
snapshotCount ==
    /\ variant = "demo"
    /\ dui.pc = "x_n"
    /\ dui' = [dui EXCEPT !.pc = "lock", !.sum = 0, !.pk = 0,
                          !.stats = MakeStats(dui.sum, dui.pk, collector.totalSamples,
                                              collector.sampleRate)]
    /\ collector' = [collector EXCEPT !.totalSamples = 0]
    /\ hist' = [hist EXCEPT !.taken.samples = @ + collector.totalSamples]
    /\ UNCHANGED << demoOnly, writer, pool, daudio, files, dirs >>

\* enqueue: juce::SpinLock::ScopedLockType lock(queueLock)
enqueueLock ==
    /\ variant = "demo"
    /\ dui.pc = "lock"
    /\ writer.queueLock = "none"
    /\ writer' = [writer EXCEPT !.queueLock = "ui"]
    /\ dui' = [dui EXCEPT !.pc = "store"]
    /\ UNCHANGED << demoOnly, collector, pool, daudio, files, dirs, hist >>

\* pendingStats = stats; pendingMeta = meta; hasWork = true; and the unlock
enqueueStore ==
    /\ variant = "demo"
    /\ dui.pc = "store"
    /\ writer' = [pendingStats |-> dui.stats, pendingMeta |-> dui.meta,
                  hasWork |-> TRUE, queueLock |-> "none"]
    /\ dui' = [dui EXCEPT !.pc = "add_job"]
    /\ hist' = [hist EXCEPT !.enqueued = @ \cup {[stats |-> dui.stats, meta |-> dui.meta]}]
    /\ UNCHANGED << demoOnly, collector, pool, daudio, files, dirs >>

\* pool.addJob(&writer, false): a job that is still in a pool is not added
addJob ==
    /\ variant = "demo"
    /\ dui.pc = "add_job"
    /\ pool' = IF pool.job = "none" THEN [pool EXCEPT !.job = "queued"] ELSE pool
    /\ dui' = [pc |-> "idle", meta |-> NoMeta, sum |-> 0, pk |-> 0, stats |-> NoStats]
    /\ hist' = [hist EXCEPT !.reqReturned = dui.meta.id,
                            !.pair = IF Unserviced(dui.meta.id, pool.metaCopy.id)
                                     THEN dui.meta.id ELSE @]
    /\ UNCHANGED << demoOnly, collector, writer, daudio, files, dirs >>

\* the pool's thread takes the queued job; runJob: if (!hasWork) return
runJob ==
    /\ variant = "demo"
    /\ pool.job = "queued"
    /\ pool.pc = "idle"
    /\ pool' = [pool EXCEPT !.job = "running",
                            !.pc = IF writer.hasWork THEN "job_lock" ELSE "job_done"]
    /\ UNCHANGED << demoOnly, collector, writer, daudio, dui, files, dirs, hist >>

\* juce::SpinLock::ScopedLockType lock(queueLock)
runJobLock ==
    /\ variant = "demo"
    /\ pool.pc = "job_lock"
    /\ writer.queueLock = "none"
    /\ writer' = [writer EXCEPT !.queueLock = "pool"]
    /\ pool' = [pool EXCEPT !.pc = "job_copy"]
    /\ UNCHANGED << demoOnly, collector, daudio, dui, files, dirs, hist >>

\* statsCopy = pendingStats; metaCopy = pendingMeta; hasWork = false; unlock
runJobCopy ==
    /\ variant = "demo"
    /\ pool.pc = "job_copy"
    /\ pool' = [pool EXCEPT !.pc = "side_mkdir", !.statsCopy = writer.pendingStats,
                            !.metaCopy = writer.pendingMeta]
    /\ writer' = [writer EXCEPT !.hasWork = FALSE, !.queueLock = "none"]
    /\ UNCHANGED << demoOnly, collector, daudio, dui, files, dirs, hist >>

\* writeSidecar: the document, the folder's name, outDir.createDirectory()
\* (its result is not looked at)
writeSidecarMkdir ==
    /\ variant = "demo"
    /\ pool.pc = "side_mkdir"
    /\ LET outDir == sidecarFolder(pool.metaCopy, now)
       IN  /\ pool' = [pool EXCEPT !.pc = "side_write", !.outDir = outDir]
           /\ \/ dirs' = dirs \cup {outDir}
              \/ dirs' = dirs
    /\ hist' = [hist EXCEPT !.attempts = Append(@, pool.metaCopy.id)]
    /\ UNCHANGED << demoOnly, collector, writer, daudio, dui, files >>

\* outFile.replaceWithText(json): writes a temporary file and moves it over
\* the target; fails, leaving nothing, when the folder does not exist
writeSidecarReplace ==
    /\ variant = "demo"
    /\ pool.pc = "side_write"
    /\ files' = IF pool.outDir \in dirs
                THEN FilePut(files, pool.outDir,
                             [written |-> TRUE,
                              json |-> SidecarJson(pool.statsCopy, pool.metaCopy),
                              samples |-> pool.statsCopy.samples])
                ELSE files
    /\ pool' = [pool EXCEPT !.pc = "job_done", !.statsCopy = NoStats,
                            !.metaCopy = NoMeta, !.outDir = NoFolder]
    /\ hist' = [hist EXCEPT !.outcomes =
                    Append(@, IF pool.outDir \in dirs THEN "ok" ELSE "mkdir")]
    /\ UNCHANGED << demoOnly, collector, writer, daudio, dui, dirs >>

\* runJob returned jobHasFinished: the pool drops the job
jobFinished ==
    /\ variant = "demo"
    /\ pool.pc = "job_done"
    /\ pool' = [pool EXCEPT !.job = "none", !.pc = "idle"]
    /\ UNCHANGED << demoOnly, collector, writer, daudio, dui, files, dirs, hist >>

DemoAudioStep ==
    \/ \E buffer \in Blocks : push(buffer)
    \/ pushPeakLoad \/ pushPeakStore \/ pushSumLoad \/ pushSumStore
    \/ pushCountLoad \/ pushCountStore

DemoUiStep ==
    \/ \E t \in TrackIds : requestSidecar(t)
    \/ snapshotPeak \/ snapshotCount \/ enqueueLock \/ enqueueStore \/ addJob

PoolStep ==
    \/ runJob \/ runJobLock \/ runJobCopy \/ writeSidecarMkdir \/ writeSidecarReplace
    \/ jobFinished

AudioStep ==
    \/ \E buffer \in Blocks : processBlock(buffer)
    \/ pushFrameStore
    \/ pushFramePublish

Next ==
    \/ \E sr \in SampleRates : prepareToPlay(sr)
    \/ releaseResources
    \/ AudioStep
    \/ WorkerStep
    \/ \E t \in TrackIds : requestSnapshotLock(t)
    \/ requestSnapshotStore
    \/ requestSnapshotFlag
    \/ stopThread
    \/ DemoAudioStep
    \/ DemoUiStep
    \/ PoolStep

Spec == Init /\ [][Next]_vars

\* =============================================================== claims
\* the audio thread has a step to take: it is inside a push, or the host
\* may call processBlock
AudioCallable ==
    /\ variant = "probe"
    /\ \/ audio.pc # "idle"
       \/ audio.prepared /\ ~threadShouldExit /\ hist.pushCount < budget.pushes

DemoAudioCallable ==
    /\ variant = "demo"
    /\ daudio.pc # "idle" \/ hist.pushCount < budget.pushes

\* C1: the audio thread's push never waits for another thread.  In every
\* reachable state - whoever holds requestMutex or queueLock, wherever the
\* worker is (inside a file write included), however full the queue is - the
\* next step of pushFrame (probe) and of push (demo) is enabled; a push is at
\* most three, respectively seven, such steps.
C1_PushNeverBlocks ==
    /\ AudioCallable => ENABLED AudioStep
    /\ DemoAudioCallable => ENABLED DemoAudioStep

\* a push is between its steps while another thread holds requestMutex
C1_Witness ==
    /\ audio.pc = "store"
    /\ requestMutex = "worker"

\* JUCE's own notion of a full queue: getFreeSpace() is 0 (or less)
QueueFull == getFreeSpace(validStart, validEnd, bufferSize) <= 0

\* indices of fifoBuffer that hold a frame not yet read
LiveSlots ==
    { i \in 0..(fifoCapacity - 1) :
        \E k \in 0..(getNumReady(validStart, validEnd, bufferSize) - 1) :
            i = (validStart + k) % Max(1, bufferSize) }

\* this step is the call of pushFrame
IsPushCall == hist'.pushed = hist.pushed + 1

\* this step is a step of pushFrame
IsPushStep == IsPushCall \/ (audio.pc \in {"store", "publish"} /\ audio'.pc # audio.pc)

\* C2: drop-newest.  A pushFrame called while the queue is full changes
\* neither the stored frames nor a cursor, raises no status (writing flag,
\* last write path, pending request) and returns at once; and no step of any
\* pushFrame changes the read cursor or a slot that holds an unread frame.
C2_DropNewest ==
    [][ /\ (IsPushCall /\ QueueFull) =>
              /\ UNCHANGED << fifoBuffer, wild, validStart, validEnd >>
              /\ UNCHANGED << writingSnapshot, lastWritePath, snapshotRequested,
                              aggregator >>
              /\ audio'.pc = "idle"
        /\ IsPushStep =>
              /\ validStart' = validStart
              /\ \A i \in LiveSlots : fifoBuffer'[i] = fifoBuffer[i]
      ]_vars

\* a frame was dropped by a queue of the intended size that still holds the
\* frame accepted before
C2_Witness ==
    /\ bufferSize = fifoCapacity
    /\ audio.pc = "idle"
    /\ hist.pushed > Len(hist.accepted)
    /\ Len(hist.accepted) >= 1
    /\ getNumReady(validStart, validEnd, bufferSize) >= 1

\* s is an initial segment of t
IsPrefix(s, t) ==
    /\ Len(s) <= Len(t)
    /\ \A i \in 1..Len(s) : s[i] = t[i]

\* C3: FIFO ordering.  In the first session (after the first prepare and
\* before any later prepare or reset, so that no reset runs beside a drain),
\* the frames handed to Aggregator::ingest are, in order, the frames that
\* pushFrame accepted: none twice, none that was not pushed.
C3_FifoOrder ==
    (variant = "probe" /\ hist.resets <= 1) =>
        IsPrefix(hist.ingested, hist.accepted)

\* Aggregator::ingest called on the frames one after the other
RECURSIVE Replay(_, _)
Replay(agg, frames) ==
    IF frames = << >> THEN agg
    ELSE Replay(ingest(agg, Head(frames)), Tail(frames))

\* no push is in progress, every frame pushed was accepted, and the worker
\* has emptied the queue and is outside drainFrames' loop body
DrainedWithoutOverflow ==
    /\ variant = "probe"
    /\ audio.pc = "idle"
    /\ hist.pushed >= 1
    /\ hist.pushed = Len(hist.accepted)
    /\ getNumReady(validStart, validEnd, bufferSize) = 0
    /\ worker.pc \notin {"drain_prepare", "drain_ingest", "drain_finish"}

\* C4: pipeline equals sequential replay.  In the first session, once the N
\* frames pushed were all accepted and the worker has drained the queue, the
\* aggregate (total samples, sum of squares, max peak, total seconds,
\* timeline) is what ingest gives on the same N frames, in order, from a
\* freshly reset aggregator.
C4_SequentialReplay ==
    (DrainedWithoutOverflow /\ hist.resets <= 1) =>
        aggregator = Replay(AggregatorReset(aggregator), hist.accepted)

\* ---- the overflow scenario: one session, fifoCapacity + 5 processBlock
\* calls, no snapshot request; the worker runs beside the audio thread
OverflowRun == [pushes |-> fifoCapacity + 5, requests |-> 0, resets |-> 1, env |-> EnvUnset]

InitOverflow ==
    /\ InitRun(OverflowRun)
    /\ variant = "probe"

NextOverflow ==
    \/ \E sr \in SampleRates : prepareToPlay(sr)
    \/ AudioStep
    \/ runLoop \/ drainCheck \/ drainPrepare \/ drainIngest \/ drainFinish
    \/ snapCheck \/ runWait

SpecOverflow == InitOverflow /\ [][NextOverflow]_vars

\* C5: overflow.  When fifoCapacity + 5 frames have been pushed into the
\* empty queue and the worker has read none of them meanwhile, exactly
\* fifoCapacity frames were accepted (and so exactly 5 dropped).
C5_OverflowAcceptsCapacity ==
    (/\ hist.pushed = fifoCapacity + 5
     /\ audio.pc = "idle"
     /\ hist.drains = 0) => Len(hist.accepted) = fifoCapacity

\* every request call has returned and nothing is left that would start a
\* write without a new request: the probe's worker runs, is outside
\* writeSnapshotIfRequested and the request flag is down; the demo's pool
\* holds no job
RequestsSettled ==
    /\ hist.reqReturned = hist.reqIssued
    /\ \/ /\ variant = "probe"
          /\ ui.pc = "idle"
          /\ ~threadShouldExit
          /\ ~snapshotRequested
          /\ worker.pc \in {"loop", "drain_check", "drain_prepare", "drain_ingest",
                            "drain_finish", "snap_check", "wait"}
       \/ /\ variant = "demo"
          /\ dui.pc = "idle"
          /\ pool.job = "none"

\* the writes started for the last pair of requests that were both submitted
\* before the worker had taken either
PairAttempts ==
    { i \in 1..Len(hist.attempts) : hist.attempts[i] \in {hist.pair - 1, hist.pair} }

\* C6: coalescing.  When two requests were both submitted before the worker
\* took either of them and no request followed, then once everything has
\* settled exactly one write was made for the pair, and it carries the second
\* request's metadata (probe and demo).
C6_Coalescing ==
    (/\ hist.pair >= 2
     /\ hist.reqReturned = hist.pair
     /\ RequestsSettled) =>
        /\ Cardinality(PairAttempts) = 1
        /\ \A i \in PairAttempts : hist.attempts[i] = hist.pair

\* ---- snapshot requests with a worker that keeps running: no shutdown, every
\* thread that can take a step eventually takes one
InitLive ==
    /\ InitRun(SnapshotRun)
    /\ variant = "probe"

UiStep ==
    \/ \E t \in TrackIds : requestSnapshotLock(t)
    \/ requestSnapshotStore
    \/ requestSnapshotFlag

NextLive ==
    \/ \E sr \in SampleRates : prepareToPlay(sr)
    \/ AudioStep
    \/ WorkerStep
    \/ UiStep

SpecLive ==
    /\ InitLive
    /\ [][NextLive]_vars
    /\ WF_vars(WorkerStep)
    /\ WF_vars(requestSnapshotStore \/ requestSnapshotFlag)
    /\ WF_vars(pushFrameStore \/ pushFramePublish)

\* a write was started for request r or for a request submitted after r
AttemptedFrom(r) == \E i \in 1..Len(hist.attempts) : hist.attempts[i] >= r

\* C7: no starvation.  With the worker running and scheduled fairly, every
\* requestSnapshot(R) that has returned is followed, eventually, by a write
\* attempt for R or for a request submitted after R.
C7_NoStarvation ==
    \A r \in 1..MaxRequests : (hist.reqReturned >= r) ~> AttemptedFrom(r)

\* no frame has reached the aggregate so far: the probe's worker has ingested
\* none in the first session, the demo's push was never called
NothingIngested ==
    \/ variant = "probe" /\ hist.resets <= 1 /\ hist.ingested = << >>
    \/ variant = "demo" /\ hist.pushCount = 0

\* C8: empty-aggregate guard.  As long as no frame has been ingested, no
\* snapshot request leads to an output file (not even an empty one) and no
\* write ends as a success, in the probe (requestSnapshot -> writeSnapshot)
\* and in the demo (requestSidecar -> writeSidecar).
C8_EmptyAggregateGuard ==
    NothingIngested =>
        /\ DOMAIN files = {}
        /\ \A i \in 1..Len(hist.outcomes) : hist.outcomes[i] # "ok"

\* this step is the worker's, taken from position pc
WorkerLeaves(pc) == worker.pc = pc /\ worker'.pc # pc

\* C9: writeSnapshot fails fast on an empty aggregate.  Entered with
\* totalSamples <= 0 it returns false at once (the worker is back in
\* writeSnapshotIfRequested), creates no directory and no file, and leaves
\* lastWritePath and every field of the aggregate as they were.
C9_FailFastOnEmpty ==
    [][ (WorkerLeaves("write_guard") /\ aggregator.totalSamples <= 0) =>
            /\ worker'.pc = "snap_unmark"
            /\ worker'.result = FALSE
            /\ UNCHANGED << files, dirs, lastWritePath, aggregator >>
      ]_vars

\* writeSnapshot has just returned false because nothing was captured
C9_Witness ==
    /\ worker.pc = "snap_unmark"
    /\ worker.why = "empty"
    /\ aggregator.totalSamples = 0

\* this step is createDirectory or the opening of the output file, failing
FilesystemFailure ==
    /\ worker.pc \in {"write_mkdir", "write_open"}
    /\ worker'.pc = "snap_unmark"

\* this step is a step of writeSnapshot before lastWritePath is assigned
WriteStepBeforePublish ==
    /\ worker.pc \in {"write_guard", "write_mkdir", "write_build", "write_open",
                      "write_truncate", "write_text"}
    /\ worker'.pc # worker.pc

\* this step raises the request flag
FlagRaised == snapshotRequested' /\ ~snapshotRequested

Served(r) == \E i \in 1..Len(hist.outcomes) : hist.attempts[i] >= r

\* requestSnapshot has returned for r and no write for r (or a later request)
\* has finished yet
Outstanding(r) == r >= 1 /\ r <= hist.reqReturned /\ ~Served(r)

\* C11: writer state machine, as seen by a poller.  From the return of
\* requestSnapshot until the write for that request has finished, the
\* pending-request flag or the writing flag is set: the writer never looks
\* idle while a submitted request is unserviced or being written.
C11_NeverIdleWhileOutstanding ==
    (/\ variant = "probe"
     /\ ~threadShouldExit
     /\ \E r \in 1..MaxRequests : Outstanding(r)) =>
        (snapshotRequested \/ writingSnapshot)

\* the worker is inside writeSnapshot
InsideWriteSnapshot ==
    worker.pc \in {"write_guard", "write_mkdir", "write_build", "write_open",
                   "write_truncate", "write_text", "write_publish"}

\* the worker is outside the bracket writingSnapshot.store(true) ...
\* writingSnapshot.store(false)
OutsideWriteBracket ==
    worker.pc \in {"loop", "drain_check", "drain_prepare", "drain_ingest",
                   "drain_finish", "snap_check", "snap_lock", "snap_copy",
                   "snap_clear", "snap_mark", "wait", "exited"}

WritingFlagBrackets ==
    /\ InsideWriteSnapshot => writingSnapshot
    /\ OutsideWriteBracket => ~writingSnapshot

\* C12: the writing flag brackets the write.  isWritingSnapshot() is true in
\* every state in which the worker is inside writeSnapshot and false once the
\* worker has passed writingSnapshot.store(false), after a success as after a
\* failure; and lastWritePath receives a new (non-empty) path only in the last
\* step of a successful write, with the flag true.
C12_WritingFlagBrackets ==
    [][ variant = "probe" =>
            /\ WritingFlagBrackets'
            /\ (lastWritePath' # lastWritePath /\ lastWritePath' # NoPath) =>
                  /\ worker.pc = "write_publish"
                  /\ writingSnapshot
                  /\ worker'.result = TRUE
                  /\ lastWritePath' = worker.folder
      ]_vars

\* one write has failed, one has succeeded and set lastWritePath, and the
\* flag is down again
C12_Witness ==
    /\ \E i, j \in 1..Len(hist.outcomes) :
          hist.outcomes[i] = "mkdir" /\ hist.outcomes[j] = "ok"
    /\ lastWritePath # NoPath
    /\ worker.pc = "wait"
    /\ ~writingSnapshot

\* ---- capture switched on and off by the user while audio runs: one
\* session, no snapshot request
CaptureRun == [pushes |-> MaxPush, requests |-> 0, resets |-> 1, env |-> EnvUnset]

InitCapture ==
    /\ InitRun(CaptureRun)
    /\ variant = "probe"

NextCapture ==
    \/ \E sr \in SampleRates : prepareToPlay(sr)
    \/ AudioStep
    \/ runLoop \/ drainCheck \/ drainPrepare \/ drainIngest \/ drainFinish
    \/ snapCheck \/ runWait
    \/ setCaptureEnabled

SpecCapture == InitCapture /\ [][NextCapture]_vars

\* this step is a call of processBlock
IsProcessBlockCall == hist'.pushCount = hist.pushCount + 1

\* C13: capture disabled.  A processBlock called while capture_enabled is off
\* makes no frame and no queue operation: the slots, both cursors and the
\* aggregate are as before, no pushFrame is entered, and only the processed
\* sample count advances.
C13_CaptureDisabled ==
    [][ (IsProcessBlockCall /\ ~captureEnabled) =>
            /\ UNCHANGED << fifoBuffer, wild, validStart, validEnd, aggregator >>
            /\ audio' = audio
            /\ hist'.pushed = hist.pushed
            /\ hist'.accepted = hist.accepted
      ]_vars

\* a block was processed with capture off while the queue held a frame
\* accepted earlier
C13_Witness ==
    /\ ~captureEnabled
    /\ audio.pc = "idle"
    /\ hist.pushCount > hist.pushed
    /\ Len(hist.accepted) >= 1
    /\ getNumReady(validStart, validEnd, bufferSize) >= 1

\* the worker's next statement ingests into the aggregate or reads it for a
\* snapshot (the guard, the derived metrics)
WorkerUsesAggregate == worker.pc \in {"drain_ingest", "write_guard", "write_build"}

\* this step is the worker's Aggregator::ingest
IsIngestStep == worker.pc = "drain_ingest" /\ worker'.pc = "drain_finish"

\* C14: exclusive ownership of the aggregate.  While the worker is about to
\* ingest into the aggregate or to read it for a snapshot, the only step that
\* changes a field of the aggregate is the worker's own ingest: no prepare,
\* reset, requestSnapshot or pushFrame on another thread writes it.
C14_ExclusiveOwnership ==
    [][ (variant = "probe" /\ WorkerUsesAggregate /\ aggregator' # aggregator) =>
            IsIngestStep
      ]_vars

\* pushFrame is between prepareToWrite and finishedWrite
PushInProgress == audio.pc \in {"store", "publish"}

\* drainFrames is between prepareToRead and finishedRead
DrainInProgress == worker.pc \in {"drain_prepare", "drain_ingest", "drain_finish"}

\* C15: SPSC discipline.  While a push or a drain is in progress, the write
\* cursor is changed only by pushFrame's finishedWrite and the read cursor only
\* by drainFrames' finishedRead: no third thread moves a cursor.
C15_SpscDiscipline ==
    [][ (variant = "probe" /\ (PushInProgress \/ DrainInProgress)) =>
            /\ validEnd' # validEnd =>
                  (audio.pc = "publish" /\ audio'.pc = "idle")
            /\ validStart' # validStart =>
                  (worker.pc = "drain_finish" /\ worker'.pc = "drain_check")
      ]_vars

\* ---- Aggregator on its own: reset() and ingest() called one after the
\* other on frames drawn from a small set
TimeInputs == {0, kTimelineSpacingSec \div 2, kTimelineSpacingSec, 2 * kTimelineSpacingSec}

FrameInputs ==
    { [timestampSec |-> t, sumSquares |-> n * p * p, sampleCount |-> n, peakLinear |-> p] :
        t \in TimeInputs, n \in {0, 2}, p \in {0, 2} }

InitAggregatorOnly ==
    /\ InitRun(StreamRun)
    /\ variant = "probe"
    /\ bufferSize = fifoCapacity

\* aggregator.ingest(frame); the frame counts as one block of the run
ingestCall(frame) ==
    /\ hist.pushCount < budget.pushes
    /\ aggregator' = ingest(aggregator, frame)
    /\ hist' = [hist EXCEPT !.ingested = Append(@, frame), !.drains = @ + 1,
                            !.pushCount = @ + 1]
    /\ UNCHANGED << budget, variant, demoVars, bufferSize, validStart, validEnd, fifoBuffer,
                    wild, snapshotRequested, writingSnapshot, pendingSnapshot,
                    requestMutex, lastWritePath, threadShouldExit, samplesProcessed,
                    currentSampleRate, captureEnabled, audio, worker, ui, files, dirs,
                    now >>

\* aggregator.reset()
resetCall ==
    /\ hist.resets < budget.resets
    /\ aggregator' = AggregatorReset(aggregator)
    /\ hist' = HistReset
    /\ UNCHANGED << budget, variant, demoVars, bufferSize, validStart, validEnd, fifoBuffer,
                    wild, snapshotRequested, writingSnapshot, pendingSnapshot,
                    requestMutex, lastWritePath, threadShouldExit, samplesProcessed,
                    currentSampleRate, captureEnabled, audio, worker, ui, files, dirs,
                    now >>

NextAggregatorOnly ==
    \/ \E frame \in FrameInputs : ingestCall(frame)
    \/ resetCall

SpecAggregatorOnly == InitAggregatorOnly /\ [][NextAggregatorOnly]_vars

\* every accumulated field is zero and the timeline is empty
AggregateCleared(agg) ==
    /\ agg.totalSamples = 0
    /\ agg.sumSquares = 0
    /\ agg.maxPeak = 0
    /\ agg.totalSeconds = 0
    /\ agg.timeline = << >>

\* C16: idempotent reset.  From any aggregate state reset() gives sample
\* count 0, sum of squares 0, peak 0, elapsed time 0 and an empty timeline; a
\* second reset() changes nothing; and the first frame ingested after a reset
\* is recorded as a timeline point, whatever its timestamp.
C16_IdempotentReset ==
    [][ /\ (hist'.resets = hist.resets + 1) =>
              /\ AggregateCleared(aggregator')
              /\ AggregatorReset(aggregator') = aggregator'
        /\ (hist'.pushCount = hist.pushCount + 1 /\ hist.resets >= 1 /\ hist.ingested = << >>) =>
              /\ Len(aggregator'.timeline) = 1
              /\ aggregator'.timeline[1].timeSec = hist'.ingested[1].timestampSec
      ]_vars

\* after frames had been ingested and the aggregate was reset, a frame with a
\* timestamp close to the last point of the previous session was ingested and
\* recorded
C16_Witness ==
    /\ hist.resets = 1
    /\ hist.pushCount > Len(hist.ingested)
    /\ Len(hist.ingested) = 1
    /\ hist.ingested[1].timestampSec = 0
    /\ Len(aggregator.timeline) = 1

\* ---- snapshots while the wall clock advances: a short stream, several
\* requests, both plugins
InitClock == InitRun(SnapshotRun)

NextClock ==
    \/ \E sr \in SampleRates : prepareToPlay(sr)
    \/ AudioStep
    \/ WorkerStep
    \/ UiStep
    \/ DemoAudioStep
    \/ DemoUiStep
    \/ PoolStep
    \/ Tick

SpecClock == InitClock /\ [][NextClock]_vars

\* C17: fresh output per snapshot.  A report that a snapshot has completely
\* written is never truncated or replaced by a later snapshot: every later
\* successful write for the same track and root goes to another folder,
\* however short the time between the two writes.
C17_FreshOutputPerSnapshot ==
    [][ \A p \in DOMAIN files :
            files[p].written => (p \in DOMAIN files' /\ files'[p] = files[p])
      ]_vars

\* C18: write-then-publish.  The report is built in memory before the output
\* file is opened, and lastWritePath is either empty or names a file that
\* exists and holds its complete, flushed content: never a missing, an empty
\* or a partially written file.
C18_WriteThenPublish ==
    /\ (variant = "probe" /\ worker.pc \in {"write_open", "write_truncate", "write_text"}) =>
          worker.json # NoReport
    /\ (variant = "probe" /\ lastWritePath # NoPath) =>
          /\ lastWritePath \in DOMAIN files
          /\ files[lastWritePath].written

\* ---- shutdown.  stopThread(2000) raises the exit flag, notifies and waits
\* at most 2000 ms for run() to return; a thread that is still running then
\* (here: one held up in a filesystem call of writeSnapshot) is killed
stopThreadTimeout ==
    /\ variant = "probe"
    /\ threadShouldExit
    /\ worker.pc \in {"write_mkdir", "write_open", "write_truncate", "write_text"}
    /\ worker' = [worker EXCEPT !.pc = "killed"]
    /\ UNCHANGED << workerOnly, validStart, aggregator, snapshotRequested, writingSnapshot,
                    pendingSnapshot, requestMutex, lastWritePath, files, dirs, hist >>

InitShutdown ==
    /\ InitRun(SnapshotRun)
    /\ variant = "probe"

NextShutdown ==
    \/ NextLive
    \/ stopThread
    \/ stopThreadTimeout

SpecShutdown ==
    /\ InitShutdown
    /\ [][NextShutdown]_vars
    /\ WF_vars(WorkerStep)
    /\ WF_vars(requestSnapshotStore \/ requestSnapshotFlag)
    /\ WF_vars(pushFrameStore \/ pushFramePublish)

\* the worker thread is gone
WorkerEnded == worker.pc \in {"exited", "killed"}

\* C19: clean shutdown.  Once the destructor has asked the worker to stop and
\* the worker is gone, no write is left in flight: every write that was
\* started has returned, the writing flag is down, and no file is left
\* truncated or partially written.
C19_CleanShutdown ==
    WorkerEnded =>
        /\ ~writingSnapshot
        /\ Len(hist.outcomes) = Len(hist.attempts)
        /\ \A p \in DOMAIN files : files[p].written

\* ---- status queries.  lastWritePath is a plain juce::String: a pointer to
\* reference-counted text.  getLastWritePath() copy-constructs its result,
\* which reads the pointer and then increments the count of the text it
\* points to, without any lock; writeSnapshot's assignment and reset()'s
\* clear() swap the pointer and release the old text on their own threads.
DanglingText == [root |-> "released", track |-> << >>, stamp |-> 0]

\* getLastWritePath(), first half: the copy reads lastWritePath's pointer
getLastWritePathLoad ==
    /\ variant = "probe"
    /\ ~threadShouldExit
    /\ ui.pc = "idle"
    /\ ui' = [ui EXCEPT !.pc = "path_retain", !.path = lastWritePath]
    /\ UNCHANGED << uiOnly, snapshotRequested, pendingSnapshot, requestMutex,
                    captureEnabled, hist >>

\* what the copy can hold once it has retained the text it loaded: the text,
\* unless the member was reassigned or cleared in between (a replacement by
\* an equal text is not told apart), and then the text was released and the
\* copy reads freed memory
RetainOutcomes ==
    IF ui.path = NoPath \/ ui.path = lastWritePath
    THEN {ui.path}
    ELSE {ui.path, DanglingText}

\* getLastWritePath(), second half: retain the text and return the copy
getLastWritePathRetain ==
    /\ variant = "probe"
    /\ ui.pc = "path_retain"
    /\ \E text \in RetainOutcomes : hist' = [hist EXCEPT !.polled = text]
    /\ ui' = [ui EXCEPT !.pc = "idle", !.path = NoPath]
    /\ UNCHANGED << uiOnly, snapshotRequested, pendingSnapshot, requestMutex,
                    captureEnabled >>

StatusStep ==
    \/ getLastWritePathLoad
    \/ getLastWritePathRetain

\* one block of audio, two or more snapshot requests, and the host releasing and
\* preparing again
StatusRun == [pushes |-> 1, requests |-> MaxRequests - 1, resets |-> MaxResets,
              env |-> EnvUnset]

InitStatus ==
    /\ InitRun(StatusRun)
    /\ variant = "probe"

NextStatus ==
    \/ NextLive
    \/ releaseResources
    \/ Tick
    \/ StatusStep

SpecStatus == InitStatus /\ [][NextStatus]_vars

\* C20: status queries are safe from any thread.  getLastWritePath() never
\* waits for another thread, and every value it returns is either empty or
\* a path that a successful write assigned.
C20_StatusQueriesSafe ==
    /\ ui.pc = "path_retain" => ENABLED getLastWritePathRetain
    /\ \/ hist.polled = NoPath
       \/ hist.polled \in DOMAIN files

\* ---- the demo collector's three atomics against the blocks pushed
\* sum of squares, peak and count (as push counts: numSamples a block) of the
\* pushed blocks whose positions are in S
RECURSIVE SumSqOver(_)
SumSqOver(S) ==
    IF S = {} THEN 0
    ELSE LET i == CHOOSE j \in S : TRUE
         IN  BlockSumSq(hist.blocks[i]) + SumSqOver(S \ {i})
RECURSIVE PeakOver(_)
PeakOver(S) ==
    IF S = {} THEN 0
    ELSE LET i == CHOOSE j \in S : TRUE
         IN  Max(BlockPeak(hist.blocks[i]), PeakOver(S \ {i}))
RECURSIVE CountOver(_)
CountOver(S) ==
    IF S = {} THEN 0
    ELSE LET i == CHOOSE j \in S : TRUE
         IN  getNumSamples(hist.blocks[i]) + CountOver(S \ {i})

\* the step on which snapshotAndReset has read its third value
SnapshotTaken == variant = "demo" /\ dui.pc = "x_n" /\ dui'.pc = "lock"

\* C21: consistent point-in-time snapshot.  The sum of squares, the peak and
\* the sample count that one snapshotAndReset call has read all describe one
\* and the same set of whole pushed blocks.
C21_ConsistentSnapshot ==
    [][ SnapshotTaken =>
            \E S \in SUBSET (1..Len(hist.blocks)) :
                /\ dui.sum = SumSqOver(S)
                /\ dui.pk = PeakOver(S)
                /\ collector.totalSamples = CountOver(S) ]_vars

\* ---- the number of scalar samples of a block: one for every square that
\* the loops over channels and samples add to the sum
RECURSIVE ScalarSamples(_)
ScalarSamples(b) == IF b = << >> THEN 0 ELSE Len(Head(b)) + ScalarSamples(Tail(b))

\* processBlock has made a frame and pushFrame has a slot for it
FrameMade == variant = "probe" /\ audio.pc = "idle" /\ audio'.pc = "store"

\* FeatureCollector::push adds its block to totalSamples
CountAdded == variant = "demo" /\ daudio.pc = "n_store" /\ daudio'.pc = "idle"

\* C22: sample count is scalar samples.  What a block contributes to the
\* accumulated sample count is samples x channels, the number of squares it
\* contributed to the sum of squares, in makeFrame and in
\* FeatureCollector::push.
C22_ScalarSampleCount ==
    [][ /\ FrameMade =>
              \E buffer \in Blocks :
                  /\ audio'.frame.sumSquares = BlockSumSq(buffer)
                  /\ audio'.frame.sampleCount = ScalarSamples(buffer)
        /\ CountAdded =>
              collector'.totalSamples =
                  daudio.loaded + ScalarSamples(hist.blocks[Len(hist.blocks)]) ]_vars

\* ---- output paths on their own: every write names its folder from the
\* request it was given, the process environment and the clock
MaxIdLen == 2
IdChars == { " ", "a", "/" }
RECURSIVE IdsOfLen(_)
IdsOfLen(n) == IF n = 0 THEN { << >> }
               ELSE { Append(s, c) : s \in IdsOfLen(n - 1), c \in IdChars }
TrackIdInputs == UNION { IdsOfLen(n) : n \in 0..MaxIdLen }
OverrideInputs == { "", "/ovr", "rel" }
EnvInputs == { EnvUnset, [set |-> TRUE, value |-> ""], [set |-> TRUE, value |-> "/env"] }
PathsRun == [pushes |-> 0, requests |-> MaxRequests - 1, resets |-> 0, env |-> EnvUnset]

InitPaths == \E e \in EnvInputs : InitRun([PathsRun EXCEPT !.env = e])

\* the environment variable is set, emptied or removed between two writes
setenv(e) ==
    /\ budget' = [budget EXCEPT !.env = e]
    /\ UNCHANGED << variant, probeVars, demoVars, audio, worker, ui, files, dirs, now, hist >>

\* writeSnapshot's path construction: resolveDataRoot, sanitiseId, timestamp
snapshotFolderCall(req) ==
    /\ variant = "probe"
    /\ hist.reqIssued < budget.requests
    /\ worker' = [worker EXCEPT !.requestCopy = req, !.folder = snapshotFolder(req, now)]
    /\ hist' = [hist EXCEPT !.reqIssued = @ + 1]
    /\ UNCHANGED << budget, variant, probeVars, demoVars, audio, ui, files, dirs, now >>

\* writeSidecar's path construction: defaultRoot, track folder, timestamp
sidecarFolderCall(meta) ==
    /\ variant = "demo"
    /\ hist.reqIssued < budget.requests
    /\ pool' = [pool EXCEPT !.metaCopy = meta, !.outDir = sidecarFolder(meta, now)]
    /\ hist' = [hist EXCEPT !.reqIssued = @ + 1]
    /\ UNCHANGED << budget, variant, probeVars, collector, writer, daudio, dui, audio,
                    worker, ui, files, dirs, now >>

NextPaths ==
    \/ \E e \in EnvInputs : setenv(e)
    \/ \E t \in TrackIdInputs, o \in OverrideInputs :
           snapshotFolderCall([id |-> hist.reqIssued + 1, trackId |-> t, dataRootOverride |-> o])
    \/ \E t \in TrackIdInputs : sidecarFolderCall([id |-> hist.reqIssued + 1, trackId |-> t])
    \/ Tick

SpecPaths == InitPaths /\ [][NextPaths]_vars

\* the root the resolution order gives for an override and an environment
ExpectedRoot(override, env) ==
    IF override # "" THEN getAbsoluteFile(override)
    ELSE IF env.set /\ env.value # "" THEN getAbsoluteFile(env.value)
    ELSE kHomeDataRoot

\* a write has named its folder on this step
FolderNamed == hist'.reqIssued = hist.reqIssued + 1

\* C23: output root resolution order.  The root a write uses is the request's
\* override when it is not empty, else MA_DATA_ROOT when it is set and not
\* empty, else the default below the home directory, whatever was resolved
\* before.  The demo's request carries no override.
C23_RootResolutionOrder ==
    [][ FolderNamed =>
            /\ variant = "probe" =>
                  worker'.folder.root =
                      ExpectedRoot(worker'.requestCopy.dataRootOverride, MA_DATA_ROOT)
            /\ variant = "demo" =>
                  pool'.outDir.root = ExpectedRoot("", MA_DATA_ROOT) ]_vars

\* C24: track-id sanitization.  The track folder writeSnapshot names has no
\* character that is illegal in a file name and is not empty, and an empty
\* or blank id gives "untitled": the snapshot folder is below a folder of
\* its track.
C24_TrackIdSanitised ==
    [][ (FolderNamed /\ variant = "probe") =>
            LET raw == worker'.requestCopy.trackId
                track == worker'.folder.track
            IN  /\ \A i \in 1..Len(track) : track[i] \notin IllegalFileNameChars
                /\ track # << >>
                /\ trim(raw) = << >> => track = kUntitled ]_vars

\* ---- the end-to-end scenario: an aggregator prepared at 1000 Hz ingests
\* blocks of 1000 samples that are 0.3 s apart.  Peaks are held in tenths
\* (0.8 is 8): ingest only compares them.
ScenarioFrame(k, sumSquares) ==
    [timestampSec |-> (k * 3 * TicksPerSec) \div 10, sumSquares |-> sumSquares,
     sampleCount |-> 1000, peakLinear |-> 8]

\* the four frames of the scenario, and the same blocks carrying no energy
ScenarioInputs == { ScenarioFrame(k, s) : k \in 0..MaxPush, s \in {0, 250} }

Scenario == [k \in 1..4 |-> ScenarioFrame(k - 1, 250)]

ScenarioRun == [pushes |-> MaxPush + 1, requests |-> 0, resets |-> 1, env |-> EnvUnset]

InitScenario ==
    /\ InitRun(ScenarioRun)
    /\ variant = "probe"
    /\ bufferSize = fifoCapacity

\* prepare(1000.0): the sample rate is set and the aggregate reset
prepareCall ==
    /\ hist.resets < budget.resets
    /\ aggregator' = AggregatorReset([aggregator EXCEPT !.sampleRate = 1000])
    /\ hist' = HistReset
    /\ UNCHANGED << budget, variant, demoVars, bufferSize, validStart, validEnd, fifoBuffer,
                    wild, snapshotRequested, writingSnapshot, pendingSnapshot,
                    requestMutex, lastWritePath, threadShouldExit, samplesProcessed,
                    currentSampleRate, captureEnabled, audio, worker, ui, files, dirs,
                    now >>

NextScenario ==
    \/ prepareCall
    \/ \E frame \in ScenarioInputs : ingestCall(frame)

SpecScenario == InitScenario /\ [][NextScenario]_vars

\* the aggregator was prepared at 1000 Hz and has since ingested exactly the
\* four frames of the scenario
ScenarioDone ==
    /\ aggregator.sampleRate = 1000
    /\ hist.resets = 1
    /\ hist.ingested = Scenario

\* C25: end-to-end scenario, counts.  Four frames of 1000 samples, sum of
\* squares 250 and peak 0.8, 0.3 s apart at 1000 Hz, ingested from a reset
\* aggregator, leave a timeline of exactly 4 points and 4000 samples.
C25_ScenarioCounts ==
    ScenarioDone =>
        /\ Len(aggregator.timeline) = 4
        /\ aggregator.totalSamples = 4000

C25_Witness ==
    /\ ScenarioDone
    /\ Len(aggregator.timeline) = 4
    /\ \A i \in 1..4 : aggregator.timeline[i].timeSec = Scenario[i].timestampSec

\* the "global" object writeSnapshot would build from the aggregate now
GlobalNow == BuildReport(NoRequest, aggregator).global

\* C26 as stated: after the four frames of the scenario the cumulative sum of
\* squares over the cumulative sample count is 1.0 and the integrated RMS is
\* the decibel value of sqrt(1.0).
C26_ScenarioLoudnessAsStated ==
    ScenarioDone =>
        /\ aggregator.sumSquares = aggregator.totalSamples
        /\ GlobalNow.integrated_rms_db = gainToDecibels(Gain(1, 1, TRUE))

\* C26: end-to-end scenario, loudness.  After the four frames of the scenario
\* (each 1000 samples, sum of squares 250) the cumulative sum of squares is
\* 1000 over 4000 samples, a quarter, and the integrated RMS computed at
\* write time is the decibel value of sqrt(1000 / 4000) = 0.5.
C26_ScenarioLoudness ==
    ScenarioDone =>
        /\ aggregator.sumSquares = 1000
        /\ aggregator.totalSamples = 4000
        /\ 4 * aggregator.sumSquares = aggregator.totalSamples
        /\ GlobalNow.integrated_rms_db = gainToDecibels(Gain(1000, 4000, TRUE))

C26_Witness ==
    /\ ScenarioDone
    /\ GlobalNow.integrated_rms_db.of = Gain(1000, 4000, TRUE)

\* 20 * log10(kEpsilon), kEpsilon = 1.0e-9
kEpsilonDb == 0 - 180

\* C27: decibel correctness.  A timeline point recorded for a silent frame
\* (sum of squares 0, peak 0) has rms_db and peak_db equal to
\* 20*log10(epsilon) = -180 dB.
C27_SilentFrameDecibels ==
    variant = "probe" =>
        \A i \in 1..Len(aggregator.timeline) :
            LET point == aggregator.timeline[i]
            IN  /\ point.rmsDb.of.num = 0 => point.rmsDb.db = kEpsilonDb
                /\ point.peakDb.of.num = 0 => point.peakDb.db = kEpsilonDb

\* every index at which pushFrame is about to write, or drainFrames to read,
\* is inside fifoBuffer
IndicesInRange ==
    /\ audio.pc = "store" => (audio.start1 >= 0 /\ audio.start1 < fifoCapacity)
    /\ (worker.pc = "drain_ingest" /\ worker.size1 > 0) =>
           (worker.start1 >= 0 /\ worker.start1 < fifoCapacity)

\* C28: fixed capacity.  The queue's capacity is the configured fifoCapacity,
\* the size of fifoBuffer, from construction on, and every index at which
\* pushFrame writes or drainFrames reads is inside fifoBuffer.
C28_FixedCapacity ==
    variant = "probe" =>
        /\ bufferSize = fifoCapacity
        /\ IndicesInRange

\* an ingest call: one more frame in the list of frames ingested
IsIngestCall == Len(hist'.ingested) = Len(hist.ingested) + 1

\* the frame an ingest call was given
IngestedFrame == hist'.ingested[Len(hist'.ingested)]

\* C29: monotone accumulation.  Between two resets, an ingest of a frame with
\* non-negative sample count, sum of squares and peak never lowers the
\* cumulative sample count, the cumulative sum of squares, the overall peak
\* or the elapsed seconds, never shortens the timeline, and leaves every
\* point the timeline already has as it is.
C29_MonotoneAccumulation ==
    [][ (variant = "probe" /\ IsIngestCall
            /\ IngestedFrame.sampleCount >= 0
            /\ IngestedFrame.sumSquares >= 0
            /\ IngestedFrame.peakLinear >= 0) =>
            /\ aggregator'.totalSamples >= aggregator.totalSamples
            /\ aggregator'.sumSquares >= aggregator.sumSquares
            /\ aggregator'.maxPeak >= aggregator.maxPeak
            /\ aggregator'.totalSeconds >= aggregator.totalSeconds
            /\ Len(aggregator'.timeline) >= Len(aggregator.timeline)
            /\ SubSeq(aggregator'.timeline, 1, Len(aggregator.timeline)) = aggregator.timeline
      ]_vars

\* two frames ingested, the second one ending before the first did
C29_Witness ==
    /\ variant = "probe"
    /\ Len(hist.ingested) = 2
    /\ hist.ingested[1].sampleCount > 0
    /\ hist.ingested[2].timestampSec < hist.ingested[1].timestampSec
    /\ aggregator.totalSeconds > hist.ingested[2].timestampSec + kTimelineSpacingSec
    /\ Len(aggregator.timeline) = 1

\* C30: timeline decimation.  ingest appends a point exactly when the frame
\* is the first since the last reset or is at least 0.25 s after the last
\* recorded point; so for frames with non-decreasing timestamps the recorded
\* times increase strictly, consecutive ones at least 0.25 s apart.

NonDecreasing(frames) ==
    \A i \in 1..(Len(frames) - 1) : frames[i].timestampSec <= frames[i + 1].timestampSec

C30_TimelineDecimation ==
    [][ (variant = "probe" /\ IsIngestCall) =>
            LET n == Len(aggregator.timeline)
                appended == Len(aggregator'.timeline) = n + 1
                first == hist.ingested = << >>
                spaced == n > 0 /\ IngestedFrame.timestampSec - aggregator.timeline[n].timeSec
                                       >= kTimelineSpacingSec
            IN  /\ appended <=> (first \/ spaced)
                /\ ~appended => aggregator'.timeline = aggregator.timeline
                /\ appended => aggregator'.timeline[n + 1].timeSec = IngestedFrame.timestampSec
                /\ NonDecreasing(hist'.ingested) =>
                       \A i \in 1..(Len(aggregator'.timeline) - 1) :
                           aggregator'.timeline[i + 1].timeSec - aggregator'.timeline[i].timeSec
                               >= kTimelineSpacingSec
      ]_vars

\* three frames in time order: the second too close to the first to be
\* recorded, the third recorded
C30_Witness ==
    /\ variant = "probe"
    /\ Len(hist.ingested) = 3
    /\ NonDecreasing(hist.ingested)
    /\ hist.ingested[2].timestampSec - hist.ingested[1].timestampSec < kTimelineSpacingSec
    /\ Len(aggregator.timeline) = 2
    /\ aggregator.timeline[2].timeSec = hist.ingested[3].timestampSec

\* a requestSnapshot call for request r is under way while the worker is
\* inside writeSnapshot
CallDuringWrite(r) ==
    /\ InsideWriteSnapshot
    /\ ui.pc \in {"store", "flag"}
    /\ ui.request.id = r

\* C31: critical section independent of I/O.  The worker never holds
\* requestMutex inside writeSnapshot, a requestSnapshot call that is under
\* way during a write can take each of its steps, and the request it stores
\* (or a later one) gets a write of its own payload.
C31_LockFreeOfIO ==
    /\ [](InsideWriteSnapshot =>
            /\ requestMutex # "worker"
            /\ ui.pc = "store" => ENABLED requestSnapshotStore
            /\ ui.pc = "flag" => ENABLED requestSnapshotFlag
            /\ (ui.pc = "idle" /\ hist.reqIssued < budget.requests) =>
                   ENABLED (\E t \in TrackIds : requestSnapshotLock(t)))
    /\ \A r \in 1..MaxRequests : CallDuringWrite(r) ~> AttemptedFrom(r)

C31_Witness ==
    /\ worker.pc = "write_text"
    /\ ui.pc = "flag"
    /\ ui.request.id > worker.requestCopy.id
    /\ pendingSnapshot = ui.request

\* the first n frames pushFrame accepted in this session have been ingested
IngestedUpTo(n) ==
    \A i \in 1..n : i <= Len(hist.ingested) /\ hist.ingested[i] = hist.accepted[i]

\* the worker has built the report of the write it is in from the aggregate
ReportBuilt ==
    variant = "probe" /\ worker.pc \in {"write_open", "write_truncate", "write_text"}

\* C32: snapshot completeness.  The aggregate a write reports for request r
\* holds every frame that pushFrame had accepted when requestSnapshot(r) was
\* called.
C32_SnapshotComplete ==
    ReportBuilt => IngestedUpTo(hist.seen[worker.requestCopy.id])

\* two blocks and one snapshot request in one session
CompletenessRun == [pushes |-> 2, requests |-> 1, resets |-> 1, env |-> EnvUnset]

InitCompleteness ==
    /\ InitRun(CompletenessRun)
    /\ variant = "probe"

SpecCompleteness == InitCompleteness /\ [][NextLive]_vars

\* C33: session isolation across reset.  Once prepare() or reset() has
\* returned, the aggregate holds nothing of an earlier session: as long as no
\* pushFrame follows, the cumulative sample count is 0 and the timeline empty,
\* and the first timeline point is the first frame pushed after the reset.
C33_SessionIsolation ==
    (variant = "probe" /\ hist.resets >= 1) =>
        /\ hist.pushed = 0 =>
              /\ aggregator.totalSamples = 0
              /\ aggregator.timeline = << >>
        /\ aggregator.timeline # << >> =>
              /\ hist.accepted # << >>
              /\ aggregator.timeline[1].timeSec = hist.accepted[1].timestampSec

\* ---- the atomics variant with two blocks and two sidecar requests; the
\* pool's thread runs whenever it has something to do, and a call that was
\* started is carried through
SidecarRun == [pushes |-> 2, requests |-> 2, resets |-> 0, env |-> EnvUnset]

InitSidecar ==
    /\ InitRun(SidecarRun)
    /\ variant = "demo"

NextSidecar ==
    \/ DemoAudioStep
    \/ DemoUiStep
    \/ PoolStep

SpecSidecar ==
    /\ InitSidecar
    /\ [][NextSidecar]_vars
    /\ WF_vars(PoolStep)
    /\ WF_vars(snapshotPeak \/ snapshotCount \/ enqueueLock \/ enqueueStore \/ addJob)

\* every pushed block, whole
AllBlocks == 1..Len(hist.blocks)

\* C34: conservation in the atomics variant.  With no push in progress, what
\* the snapshotAndReset calls have taken plus what is still accumulated is
\* what was pushed, in sample count and in sum of squares: no block is lost
\* and none counted twice.
C34_Conservation ==
    (variant = "demo" /\ daudio.pc = "idle") =>
        /\ hist.taken.samples + collector.totalSamples = CountOver(AllBlocks)
        /\ hist.taken.sum + collector.sumSquares = SumSqOver(AllBlocks)

\* C35: sidecar requests are not lost.  Every requestSidecar call that has
\* returned is followed, eventually, by a writeSidecar of what it enqueued
\* or of what a later call enqueued.
C35_SidecarNotLost ==
    \A r \in 1..MaxRequests :
        (variant = "demo" /\ hist.reqReturned >= r) ~> AttemptedFrom(r)

\* this step is a statement of writeSnapshot
IsWriteSnapshotStep == variant = "probe" /\ InsideWriteSnapshot /\ worker' # worker

\* the worker has built a report, and the file of the snapshot written
\* before it (same track, same second: the same folder) reports the same
\* cumulative sample count: no frame was ingested between the two
SecondSnapshotUnchanged ==
    /\ ReportBuilt
    /\ worker.folder \in DOMAIN files
    /\ files[worker.folder].written
    /\ files[worker.folder].samples = worker.samples

\* C36: snapshots are cumulative.  No statement of writeSnapshot changes a
\* field of the aggregate or a cursor or slot of the transfer queue, whether
\* the write succeeds or fails, and a snapshot built with no frame ingested
\* since the one before reports the same global statistics and timeline.
C36_SnapshotsCumulative ==
    /\ [][ IsWriteSnapshotStep =>
              /\ aggregator' = aggregator
              /\ validStart' = validStart
              /\ validEnd' = validEnd
              /\ fifoBuffer' = fifoBuffer ]_vars
    /\ [](SecondSnapshotUnchanged =>
              /\ worker.json.global = files[worker.folder].json.global
              /\ worker.json.timeline = files[worker.folder].json.timeline)

C36_Witness ==
    /\ SecondSnapshotUnchanged
    /\ worker.samples > 0
    /\ \E i \in 1..Len(hist.outcomes) : hist.outcomes[i] = "ok"
    /\ \E i \in 1..Len(hist.outcomes) : hist.outcomes[i] \notin {"ok", "empty"}

\* one session of contiguous blocks, every one captured, accepted and
\* ingested, and no push in progress: the last frame ingested is the block
\* the playback clock has just passed
AllBlocksIngested ==
    /\ variant = "probe"
    /\ bufferSize = fifoCapacity
    /\ hist.resets = 1
    /\ audio.pc = "idle"
    /\ hist.pushCount >= 1
    /\ hist.pushed = hist.pushCount
    /\ Len(hist.accepted) = hist.pushed
    /\ hist.ingested = hist.accepted

\* C37: reported duration matches the playback clock.  After the frame of a
\* block of one or two channels is ingested, total elapsed seconds is the
\* playback position at the end of that block (samplesProcessed over the
\* sample rate), and no more.
C37_DurationMatchesClock ==
    AllBlocksIngested =>
        aggregator.totalSeconds * currentSampleRate = samplesProcessed * TicksPerSec

\* the requests requestSnapshot has been called with so far
SubmittedRequests ==
    { [id |-> r, trackId |-> t, dataRootOverride |-> ""] :
          r \in 1..hist.reqIssued, t \in TrackIds }

\* the worker (probe) or the pool's thread (demo) holds a copy of a payload
ProbeHoldsCopy == variant = "probe" /\ worker.requestCopy # NoRequest
DemoHoldsCopy == variant = "demo" /\ pool.metaCopy # NoMeta

\* C38: request payloads are never torn.  The payload is stored and copied
\* under the same lock, so a store and a copy never overlap; the copy handed
\* to the write is, in all its fields, one request that was submitted
\* (probe) and one (stats, meta) pair that enqueue was called with (demo).
C38_PayloadNeverTorn ==
    /\ ~(variant = "probe" /\ ui.pc = "store" /\ worker.pc = "snap_copy")
    /\ ~(variant = "demo" /\ dui.pc = "store" /\ pool.pc = "job_copy")
    /\ ProbeHoldsCopy => worker.requestCopy \in SubmittedRequests
    /\ DemoHoldsCopy =>
           [stats |-> pool.statsCopy, meta |-> pool.metaCopy] \in hist.enqueued

\* the copier waits for the lock while a later payload is being stored over
\* an earlier one, in each variant
C38_Witness ==
    \/ /\ variant = "probe"
       /\ worker.pc = "snap_lock"
       /\ ui.pc = "store"
       /\ pendingSnapshot \in SubmittedRequests
       /\ ui.request.id > pendingSnapshot.id
    \/ /\ variant = "demo"
       /\ pool.pc = "job_lock"
       /\ dui.pc = "store"
       /\ writer.pendingMeta # NoMeta
       /\ dui.meta.id > writer.pendingMeta.id
       /\ dui.stats # writer.pendingStats

\* ---- one session: a prepare, MaxPush blocks and a snapshot request, with
\* the worker scheduled fairly and every call that was started carried through
DrainRun == [pushes |-> MaxPush, requests |-> 1, resets |-> 1, env |-> EnvUnset]

InitDrain ==
    /\ InitRun(DrainRun)
    /\ variant = "probe"

SpecDrain ==
    /\ InitDrain
    /\ [][NextLive]_vars
    /\ WF_vars(WorkerStep)
    /\ WF_vars(requestSnapshotStore \/ requestSnapshotFlag)
    /\ WF_vars(pushFrameStore \/ pushFramePublish)

\* this step is drainFrames' return: its loop test found the queue empty
IsDrainReturn == worker.pc = "drain_check" /\ worker'.pc = "snap_check"

\* C39: accepted frames are eventually aggregated.  With the worker scheduled
\* fairly and no reset, prepare or shutdown after the acceptance, the k-th
\* frame pushFrame accepted is eventually the k-th frame passed to
\* Aggregator::ingest; and drainFrames returns with the queue empty.
C39_EventuallyAggregated ==
    /\ \A k \in 1..MaxPush :
           (Len(hist.accepted) >= k) ~>
               (Len(hist.ingested) >= k /\ hist.ingested[k] = hist.accepted[k])
    /\ [][ IsDrainReturn => getNumReady(validStart', validEnd', bufferSize) = 0 ]_vars

\* ---- one block and two snapshot requests, the second of which can arrive
\* while the first is being written; scheduling as in SpecLive
ContentionRun == [pushes |-> 1, requests |-> 2, resets |-> 1, env |-> EnvUnset]

InitContention ==
    /\ InitRun(ContentionRun)
    /\ variant = "probe"

SpecContention ==
    /\ InitContention
    /\ [][NextLive]_vars
    /\ WF_vars(WorkerStep)
    /\ WF_vars(requestSnapshotStore \/ requestSnapshotFlag)
    /\ WF_vars(pushFrameStore \/ pushFramePublish)

====
